---- MODULE Spec2Model ----
(***************************************************************************)
(* Client-side state synchronisation of the trading dashboard:             *)
(*   static/js/modules/bot_control.js  toggleBot, updateAllBotStatuses     *)
(*   static/js/modules/market_data.js  updateData                          *)
(*   static/js/scripts.js              price_update handler, click handler *)
(* The DOM of the dashboard is the state: per pair row a Start/Stop        *)
(* button (action-<id>), an edit control (edit-action-<id>) and a price    *)
(* cell (price-<id>).  The server is external: every response and push     *)
(* message is an input drawn from a small set.                             *)
(***************************************************************************)
EXTENDS Integers, Sequences, FiniteSets, TLC

(* ---------------------------------------------------------------------- *)
(* Bounds                                                                  *)
(* ---------------------------------------------------------------------- *)
\* number of toggleBot calls that may be unresolved at the same time
MaxToggles == 1
\* number of poll requests (bot-status or full-data) in flight at once
MaxPolls == 2
\* number of /api/notifications requests in flight at once
MaxNotePolls == 2
\* number of clicks on Clear All in a session
MaxClears == 2
\* number of records in an /api/open_positions response
MaxPositions == 3
\* number of clear_open_positions requests in a session
MaxRemoves == 1
\* number of periodic refreshes in flight at once
MaxPosPolls == 1
\* number of reset_profit / remove_pair_profit requests in a session
MaxProfitReqs == 2
\* number of /api/profit_log_entries requests in flight at once
MaxLedgerReqs == 2
\* the pages the server may report
MaxPages == 3
\* toggleBot chains in flight at once, where clicks are dispatched to listeners
MaxChains == 2

(* ---------------------------------------------------------------------- *)
(* The pair table                                                          *)
(* ---------------------------------------------------------------------- *)
Pairs == {1, 2}
Symbols == {"BTCUSDC", "ETHUSDC"}
NoRow == 0

\* data-exchange / data-mode attributes of the rows
RowExchange == [p \in Pairs |-> IF p = 1 THEN "binance" ELSE "bybit"]
RowMode == [p \in Pairs |-> "real"]

\* data-symbol attribute of the rows: either two different symbols, or the
\* same symbol configured on two exchanges
RowSymbolChoices ==
    { [p \in Pairs |-> IF p = 1 THEN "BTCUSDC" ELSE "ETHUSDC"],
      [p \in Pairs |-> "BTCUSDC"] }

\* prices are numbers, in units of 10^-5
PriceVals == { <<"num", 100000>>, <<"num", 123456>> }

ToggleIds == 1..MaxToggles
ChainIds == 1..MaxChains
PollIds == 1..MaxPolls

PartialMaps(K, V) == UNION { [D -> V] : D \in SUBSET K }
EmptyMap == [k \in {} |-> TRUE]

\* the payloads the server may send
PriceMaps == PartialMaps(Symbols, PriceVals)
\* price maps over every set of symbols, with one price value
SinglePriceMaps == PartialMaps(Symbols, { <<"num", 123456>> })
\* price values of every kind: a number, the sentinel 'N/A', another string, null
AnyPriceVals == { <<"num", 123456>>, <<"str", "N/A">>, <<"str", "abc">>, <<"null", 0>> }
AnyPriceMaps == PartialMaps(Symbols, AnyPriceVals)
StatusMaps == PartialMaps(Symbols, BOOLEAN)
BotStatusMaps == PartialMaps(Pairs, BOOLEAN)

(* ---------------------------------------------------------------------- *)
(* State                                                                   *)
(* ---------------------------------------------------------------------- *)
VARIABLES
    rowSym,             \* tr[data-symbol] of each row
    label,              \* innerText of button action-<id>
    editDisabled,       \* "disabled" class of the edit controls, by element id
    priceText,          \* innerText of cell price-<id>
    priceCache,         \* scripts.js: let priceCache
    toggles,            \* unresolved toggleBot promise chains
    polls,              \* poll requests in flight
    alerts,             \* alert() calls made by the latest handler
    last,               \* the latest handler: a toggle's outcome and its pair
    hist,               \* history: what was displayed and in flight, and when
    initFetch,          \* scripts.js: the market overview's fetch('/api/data')
    marketText,         \* market-overview-table: price column, by row symbol
    threw,              \* a render of the market overview table has thrown
    serverNotes,        \* the server's notification log
    everLogged,         \* history: the notifications the server has ever logged
    seenNotifications,  \* notifications.js: the Set seenNotifications
    notificationList,   \* the <li> entries of notification-list
    notificationCount,  \* textContent of notification-count
    notePolls,          \* /api/notifications requests in flight
    clearReq,           \* the /clear_notifications request in flight
    noteHist,           \* history: alert() calls per notification, resets done
    posResponse,        \* the /api/open_positions response and its stage
    posTable,           \* open-positions-body: the group headers, in order
    removeReqs,         \* the clear_open_positions requests of the remove buttons
    posRefreshes,       \* updateData() chains that have yet to answer positions
    currentTradeStatus, \* market_data.js: window.currentTradeStatus
    accountItems,       \* account-accordion: the accordion items, in order
    profitFetches,      \* updateData chains waiting for /api/pair_profit
    profitReqs,         \* the reset_profit / remove_pair_profit requests
    currentPage,        \* trades.js: currentPage
    currentTimeframe,   \* trades.js: currentTimeframe
    currentSort,        \* trades.js: currentSort
    ledgerReqs,         \* /api/profit_log_entries requests in flight
    ledgerBody,         \* profit-log-body: the rows of the ledger table
    paginationControls, \* pagination-controls: its buttons, or none
    bound,              \* dataset.bound of button action-<id>
    listeners           \* the click listeners added to button action-<id>

\* the market overview page
marketVars == << initFetch, marketText, threw >>
\* the state outside the pair table and its timers
\* the notification dropdown and the server's log behind it
noteVars == << serverNotes, everLogged, seenNotifications, notificationList,
               notificationCount, notePolls, clearReq, noteHist >>
\* the open positions table
posVars == << posResponse, posTable, removeReqs, posRefreshes >>
\* the account accordion and the rest of updateData's chain
acctVars == << currentTradeStatus, accountItems, profitFetches, profitReqs >>
\* the profit ledger of the trades page
ledgerVars == << currentPage, currentTimeframe, currentSort, ledgerReqs,
                 ledgerBody, paginationControls >>
\* the click listeners of the Start/Stop buttons
ctrlVars == << bound, listeners >>
besidesCtrl == << marketVars, noteVars, posVars, acctVars, ledgerVars >>
others == << marketVars, noteVars, posVars, acctVars, ledgerVars, ctrlVars >>
\* others, without one of its parts
besidesMarket == << noteVars, posVars, acctVars, ledgerVars, ctrlVars >>
besidesNotes == << marketVars, posVars, acctVars, ledgerVars, ctrlVars >>
besidesPos == << marketVars, noteVars, acctVars, ledgerVars, ctrlVars >>
besidesAcct == << marketVars, noteVars, posVars, ledgerVars, ctrlVars >>
besidesLedger == << marketVars, noteVars, posVars, acctVars, ctrlVars >>
\* the pair table, its timers and the price cache
dashVars == << rowSym, label, editDisabled, priceText, priceCache,
               toggles, polls, alerts, last >>

vars == << rowSym, label, editDisabled, priceText, priceCache,
           toggles, polls, alerts, last, hist, others >>

\* the notifications the server may log: {symbol, timestamp, type, message}
ErrorNote ==
    [symbol |-> "BTCUSDC", timestamp |-> "t1", type |-> "error", message |-> "failed"]
InfoNote ==
    [symbol |-> "ETHUSDC", timestamp |-> "t1", type |-> "info", message |-> "filled"]
Notes == { ErrorNote, InfoNote }
\* `${symbol}-${msg.timestamp}`
NoteId(n) == n.symbol \o "-" \o n.timestamp
NoteIds == { NoteId(n) : n \in Notes }
NotePollIds == 1..MaxNotePolls
\* an /api/notifications request: "sent", then "answered" with the log as body
IdleNotePoll == [stage |-> "none", body |-> {}]
\* history of the notification dropdown:
\*   alerted[id]  number of alert() calls made for the notification
\*   resets       the seen-set has been cleared
\*   clicks       number of clicks on Clear All
\*   delivered    "none", "once" or "again": how often a response holding the
\*                notification has been applied
NoNoteHist ==
    [alerted |-> [id \in NoteIds |-> 0], resets |-> FALSE, clicks |-> 0,
     delivered |-> [id \in NoteIds |-> "none"]]

\* element ids and the data-id attribute: <<text, pair id>>
DataId(p) == << "", p >>
ActionBtnId(p) == << "action-", p >>
EditActionId(p) == << "edit-action-", p >>
\* "edit-" + x
EditPrefixed(x) == << "edit-" \o x[1], x[2] >>

\* the edit controls that exist in the document
DomEditIds == { EditActionId(p) : p \in Pairs }

\* el = getElementById(id); if (el) el.classList.add/remove("disabled")
SetDisabled(ed, id, val) ==
    IF id \in DOMAIN ed THEN [ed EXCEPT ![id] = val] ELSE ed

\* a toggleBot promise chain: pc is the request it waits for, log the requests it
\* has issued and seen completed
IdleToggle == [pc |-> "idle", pair |-> 0, action |-> "none", log |-> <<>>]
\* a poll in flight: "status" (/api/bot_statuses) or "data" (/api/data)
IdlePoll == "none"
\* the handler that ran last: "ok", "fail", "invalid" for the three outcomes of a
\* toggle (with its pair and action), "other" for every other handler
NoEvent == [ev |-> "other", pair |-> 0, action |-> "none"]
\* history, kept by the specifications that state races:
\*   shown[t]    label and edit state of the pair when toggle t was clicked
\*   atClick[t]  the polls that were in flight when toggle t was clicked
\*   newer[k][p] the handler ("toggle", "push") that wrote pair p's row after
\*               poll k was started and whose value is still displayed
\*   snapCur     the /api/data response of the chain that waits for its profits
\*   snapInput   the responses (data, profits) applied last, with nothing since
\*   snapShown   what was displayed after they were applied
\*   snapAgain   they were the same as the responses applied before them
\*   applied     the page response of the ledger that the last step applied
\*   pushed      the prices and trade_status of the push that the last step applied
\*   clicked     the pair whose button the last step clicked, or 0
\*   started     the toggleBot chains that the last step started
\*   clearOk[t]  response.ok of the clear-open-positions response of chain t
\*   query       the request whose page response the last step applied
\*   reattached  attachControlHandlers has run over buttons that were bound
\*   stage       the stage of updateData that the last step settled, and how
NoShown == << "-", FALSE >>
NoSnapshot == << >>
NoHist ==
    [shown |-> [t \in ToggleIds |-> NoShown],
     atClick |-> [t \in ToggleIds |-> {}],
     newer |-> [k \in PollIds |-> [p \in Pairs |-> "none"]],
     snapCur |-> NoSnapshot, snapInput |-> NoSnapshot, snapShown |-> NoSnapshot,
     snapAgain |-> FALSE, applied |-> << >>, pushed |-> << >>,
     clicked |-> 0, started |-> 0, clearOk |-> [t \in ChainIds |-> "none"],
     reattached |-> FALSE, stage |-> "none", query |-> << >>]

\* strings that the code splits or filters, as sequences of tokens
BTCUSDC == << "BTCUSDC" >>
ETHUSDC == << "ETHUSDC" >>
Binance == << "binance" >>
Bybit == << "bybit" >>
\* a position record: quantity in units of 10^-6, current_pnl in units of 10^-2
Pos(sym, ex, mode, qty, pnl) ==
    [symbol |-> sym, exchange |-> ex, trading_mode |-> mode,
     quantity |-> qty, current_pnl |-> pnl]
PosRecords ==
    { Pos(BTCUSDC, Binance, "real", 1000000, << "num", 300 >>),
      Pos(BTCUSDC, Binance, "real", 2500000, << "num", -200 >>),
      Pos(BTCUSDC, Binance, "paper", 500000, << "num", -125 >>),
      Pos(BTCUSDC, Bybit, "real", 1000000, << "null", 0 >>),
      Pos(BTCUSDC, Bybit, "paper", 2000000, << "num", 450 >>),
      Pos(ETHUSDC, Binance, "paper", 3000000, << "num", 0 >>),
      Pos(ETHUSDC, Binance, "paper", 1500000, << "num", 75 >>),
      Pos(ETHUSDC, Bybit, "real", 250000, << "num", -50 >>) }
\* the responses of /api/open_positions
PositionLists == UNION { [1..n -> PosRecords] : n \in 0..MaxPositions }
\* the responses of the view specification: the records of three groups, one
\* of them with two records of different modes, each present or absent
ViewRecords ==
    << Pos(BTCUSDC, Binance, "real", 1000000, << "num", 300 >>),
       Pos(BTCUSDC, Bybit, "paper", 2000000, << "num", 450 >>),
       Pos(BTCUSDC, Binance, "paper", 500000, << "num", -125 >>),
       Pos(ETHUSDC, Binance, "paper", 1500000, << "num", 75 >>) >>
ViewLists ==
    { list \in PositionLists :
        \E kept \in SUBSET (1..Len(ViewRecords)) :
            list = SelectSeq(ViewRecords, LAMBDA rec :
                        \E i \in kept : ViewRecords[i] = rec) }
NoPosResponse == [stage |-> "none", list |-> << >>]
\* the remove requests: none yet, in flight ("sent") or settled ("done");
\* attached says whether the clicked button's header row is in the document
RemoveIds == 1..MaxRemoves
NoRemove ==
    [stage |-> "none", symbol |-> << >>, exchange |-> << >>,
     trading_mode |-> << "null", "" >>, attached |-> FALSE]

\* account_info of /api/data: `${exchange}_${mode}` -> {balance, pnl, active_pairs},
\* pnl in units of 10^-5 (usdc) and 10^-6 (crypto)
AcctKeys == << "binance_real", "bybit_real" >>
InfoA == [balance |-> 1000, pnl |-> [usdc |-> 250000, crypto |-> 40], active_pairs |-> 1]
InfoB == [balance |-> 2000, pnl |-> [usdc |-> 0, crypto |-> 0], active_pairs |-> 0]
AccountInfos ==
    { [k \in {"binance_real"} |-> InfoA],
      [k \in {"binance_real", "bybit_real"} |-> IF k = "binance_real" THEN InfoB ELSE InfoA] }
\* /api/pair_profit: key -> [{pair_id, symbol, profit_usdc, profit_crypto}]
ProfitA == [pair_id |-> 1, symbol |-> "BTCUSDC", profit_usdc |-> 123456, profit_crypto |-> 10]
ProfitB == [pair_id |-> 2, symbol |-> "ETHUSDC", profit_usdc |-> 200004, profit_crypto |-> 5]
PairProfits ==
    { EmptyMap,
      [k \in {"binance_real"} |-> << ProfitA, ProfitB >>],
      [k \in {"binance_real", "bybit_real"} |->
            IF k = "binance_real" THEN << ProfitA >> ELSE << ProfitB >>] }
\* the reset and remove requests of the profit rows
ProfitReqIds == 1..MaxProfitReqs
NoProfitReq == [stage |-> "none", kind |-> "none", pair_id |-> 0]
ProfitIds == { ProfitA.pair_id, ProfitB.pair_id }
\* the /api/data responses of the snapshot specification
Snapshots ==
    [prices : { EmptyMap, [k \in {"BTCUSDC"} |-> << "num", 123456 >>] },
     hasStatus : {TRUE}, trade_status : { [k \in {"BTCUSDC"} |-> TRUE],
                                          [k \in Symbols |-> k = "ETHUSDC"] },
     hasAccount : {TRUE}, account_info : AccountInfos]
    \cup
    [prices : { [k \in {"BTCUSDC"} |-> << "num", 123456 >>] },
     hasStatus : {FALSE}, trade_status : {EmptyMap},
     hasAccount : {FALSE}, account_info : {EmptyMap}]
\* the profit ledger: page size, the values of the two selects, the requests
\* (`/api/profit_log_entries?page=&per_page=&timeframe=&sort=`) and the
\* responses {entries, total_pages, current_page} or {error}
itemsPerPage == 20
Timeframes == { "all", "day" }
Sorts == { "timestamp", "profit" }
LedgerReqIds == 1..MaxLedgerReqs
NoLedgerReq == << >>
LedgerQuery(page, timeframe, sort) ==
    << [page |-> page, per_page |-> itemsPerPage, timeframe |-> timeframe, sort |-> sort] >>
LedgerEntries == { "e1", "e2" }
EntryLists == { << >>, << "e1" >>, << "e2", "e1" >> }
PageResponses ==
    [entries : EntryLists, total_pages : 0..MaxPages, current_page : 1..(MaxPages + 1)]
NoControls == << >>

\* the /api/data responses of the profit view: the run states and the accounts
ViewSnapshots ==
    [prices : { EmptyMap },
     hasStatus : {TRUE}, trade_status : { [k \in {"BTCUSDC"} |-> b] : b \in BOOLEAN },
     hasAccount : {TRUE}, account_info : AccountInfos]

\* the page as served, with room for the toggleBot chains ids
InitPage(ids) ==
    /\ rowSym \in RowSymbolChoices
    /\ label = [p \in Pairs |-> "Start"]
    /\ editDisabled = [e \in DomEditIds |-> FALSE]
    /\ priceText = [p \in Pairs |-> <<"NA", 0>>]
    /\ priceCache = EmptyMap
    /\ toggles = [t \in ids |-> IdleToggle]
    /\ polls = [k \in PollIds |-> IdlePoll]
    /\ alerts = 0
    /\ last = NoEvent
    /\ hist = NoHist
    /\ initFetch = "idle"
    /\ marketText = EmptyMap
    /\ threw = FALSE
    /\ serverNotes = {}
    /\ everLogged = {}
    /\ seenNotifications = {}
    /\ notificationList = << >>
    /\ notificationCount = 0
    /\ notePolls = [k \in NotePollIds |-> IdleNotePoll]
    /\ clearReq = "none"
    /\ noteHist = NoNoteHist
    /\ posTable = << >>
    /\ removeReqs = [r \in RemoveIds |-> NoRemove]
    /\ posRefreshes = 0
    /\ currentTradeStatus = EmptyMap
    /\ accountItems = << >>
    /\ profitFetches = 0
    /\ profitReqs = [r \in ProfitReqIds |-> NoProfitReq]
    /\ currentPage = 1
    /\ currentTimeframe = "all"
    /\ currentSort = "timestamp"
    /\ ledgerReqs = [r \in LedgerReqIds |-> NoLedgerReq]
    /\ ledgerBody = << >>
    /\ paginationControls = NoControls
    /\ bound = [p \in Pairs |-> FALSE]
    /\ listeners = [p \in Pairs |-> 0]

InitDashboard == InitPage(ToggleIds)

\* the state when the scripts have loaded
Init ==
    /\ InitDashboard
    /\ posResponse = NoPosResponse

(* ---------------------------------------------------------------------- *)
(* Helpers                                                                 *)
(* ---------------------------------------------------------------------- *)
Min(S) == CHOOSE x \in S : \A y \in S : x <= y

FreeToggles == { t \in DOMAIN toggles : toggles[t].pc = "idle" }
FreePolls == { k \in PollIds : polls[k] = "none" }

\* isRunning ? 'Stop' : 'Start'
LabelFor(isRunning) == IF isRunning THEN "Stop" ELSE "Start"

\* document.querySelector(`tr[data-symbol='${symbol}']`): the first such row
QuerySelectorRow(symbol) ==
    LET R == { p \in Pairs : rowSym[p] = symbol }
    IN  IF R = {} THEN NoRow ELSE Min(R)
\* the rows a symbol-keyed map reaches, and the symbol that reaches row p
RowsOf(m) == { QuerySelectorRow(sym) : sym \in DOMAIN m } \ {NoRow}
SymbolOf(p) == rowSym[p]

\* Number.prototype.toFixed(4), of a number given in units of 10^-5
ToFixed4(n) == (n + 5) \div 10
\* v !== 'N/A' && typeof v === 'number' ? v.toFixed(4) : (v || 'N/A')
FormatPrice(v) ==
    CASE v[1] = "num" -> << "fixed4", ToFixed4(v[2]) >>
      [] v[1] = "str" /\ v[2] \notin {"", "N/A"} -> << "str", v[2] >>
      [] OTHER -> << "NA", 0 >>

\* a price value as a condition: 0, '', null and undefined are falsy
TruthyVal(v) ==
    CASE v[1] = "num" -> v[2] # 0
      [] v[1] = "str" -> v[2] # ""
      [] OTHER -> FALSE
\* obj[key], undefined read as null
Lookup(m, key) == IF key \in DOMAIN m THEN m[key] ELSE << "null", 0 >>
\* v.toFixed(4) throws unless v is a number
ToFixedThrows(v) == v[1] # "num"

\* updateMarketTable: priceCache[symbol] && priceCache[symbol] !== 'N/A'
\*                        ? `$${priceCache[symbol].toFixed(4)}` : 'N/A'
MarketFormats(v) == TruthyVal(v) /\ v # << "str", "N/A" >>
MarketCell(v) ==
    IF MarketFormats(v) THEN << "$fixed4", ToFixed4(v[2]) >> ELSE << "NA", 0 >>
\* initializeMarketTable: priceCache[pair] ? `$${priceCache[pair].toFixed(4)}`
\*                                         : 'Loading...'
InitialCell(v) ==
    IF TruthyVal(v) THEN << "$fixed4", ToFixed4(v[2]) >> ELSE << "Loading", 0 >>

\* the rows of the market overview table, in table order
SymbolOrder == << "BTCUSDC", "ETHUSDC" >>
\* table.rows().every(...): the rows before the first one whose cell throws
RowsDrawn(rows, cache) ==
    { SymbolOrder[i] : i \in { j \in 1..Len(SymbolOrder) :
        /\ SymbolOrder[j] \in rows
        /\ \A h \in 1..j : SymbolOrder[h] \in rows =>
              ~(MarketFormats(Lookup(cache, SymbolOrder[h]))
                /\ ToFixedThrows(Lookup(cache, SymbolOrder[h]))) } }
MarketThrows(rows, cache) == RowsDrawn(rows, cache) # rows
\* the price column after updateMarketTable(prices, cache)
MarketDrawn(text, cache) ==
    [sym \in DOMAIN text |->
        IF sym \in RowsDrawn(DOMAIN text, cache)
        THEN MarketCell(Lookup(cache, sym)) ELSE text[sym]]

\* variant: the second object replaces the first
SpreadReplace(a, b) == b

\* variant: of the second object, only the keys that have a row are merged
SpreadRows(a, b) ==
    [k \in (DOMAIN a) \cup { sym \in DOMAIN b : \E p \in Pairs : rowSym[p] = sym } |->
        IF k \in DOMAIN b THEN b[k] ELSE a[k]]

\* { ...a, ...b }
Spread(a, b) ==
    [k \in (DOMAIN a) \cup (DOMAIN b) |-> IF k \in DOMAIN b THEN b[k] ELSE a[k]]

\* obj[key] as a condition: undefined is falsy
Truthy(m, key) == key \in DOMAIN m /\ m[key]

\* status strings, as sequences of characters
StatusOk == << "o", "k" >>
StatusEmpty == << >>
StatusInvalidPair == << "I", "n", "v", "a", "l", "i", "d", " ", "p", "a", "i", "r" >>
StatusUpper == << "P", "A", "I", "R", " ", "I", "N", "V", "A", "L", "I", "D" >>
StatusVals == { StatusOk, StatusEmpty, StatusInvalidPair, StatusUpper }
Invalid == << "i", "n", "v", "a", "l", "i", "d" >>

\* String.prototype.toLowerCase, on the letters the statuses use
LowerChar(c) ==
    CASE c = "I" -> "i" [] c = "N" -> "n" [] c = "V" -> "v" [] c = "A" -> "a"
      [] c = "L" -> "l" [] c = "D" -> "d" [] c = "P" -> "p" [] c = "R" -> "r"
      [] OTHER -> c
ToLowerCase(s) == [i \in 1..Len(s) |-> LowerChar(s[i])]
\* String.prototype.includes
Includes(s, pat) ==
    \E i \in 1..(Len(s) + 1) :
        /\ i + Len(pat) - 1 <= Len(s)
        /\ SubSeq(s, i, i + Len(pat) - 1) = pat

\* variant: the test without toLowerCase()
IsInvalidStatusCaseSensitive(status) ==
    /\ status # StatusEmpty
    /\ Includes(status, Invalid)

\* data.status && data.status.toLowerCase().includes('invalid')
IsInvalidStatus(status) ==
    /\ status # StatusEmpty
    /\ Includes(ToLowerCase(status), Invalid)

\* request bodies
ClearBody(p) ==
    [symbol |-> rowSym[p], exchange |-> RowExchange[p], trading_mode |-> RowMode[p]]
ControlBody(action, p) == [action |-> action, pair_id |-> p]
SentClear(p) == << "sent", "/api/clear_open_positions", ClearBody(p) >>
DoneClear == << "done", "/api/clear_open_positions" >>
SentControl(action, p) == << "sent", "/api/control", ControlBody(action, p) >>

\* variant: no request is issued
StartRefreshNone(ps) == ps

\* updateData(): fetch('/api/data') is issued
StartRefresh(ps) ==
    [ps EXCEPT ![Min({ k \in PollIds : ps[k] = "none" })] = "data"]

(* ---------------------------------------------------------------------- *)
(* toggleBot (bot_control.js) called by the click handler (scripts.js)     *)
(* ---------------------------------------------------------------------- *)
\* variant: the control request issued without waiting for the clear request
FirstRequestsNoWait(action, p) ==
    IF action = "start"
    THEN << SentClear(p), SentControl(action, p) >>
    ELSE << SentControl(action, p) >>

\* the requests toggleBot issues before it returns
FirstRequests(action, p) ==
    IF action = "start" THEN << SentClear(p) >> ELSE << SentControl(action, p) >>

\* toggleBot(pairId, ...) up to its return: the chain it leaves in flight
StartToggle(tg, p) ==
    LET t == Min({ x \in DOMAIN tg : tg[x].pc = "idle" })
        action == IF label[p] = "Start" THEN "start" ELSE "stop"
    IN  [tg EXCEPT ![t] =
            [pc |-> IF action = "start" THEN "clear" ELSE "control",
             pair |-> p, action |-> action,
             log |-> FirstRequests(action, p)]]

\* the click listener of action-<p>
ToggleClick(p) ==
    /\ FreeToggles # {}
    /\ toggles' = StartToggle(toggles, p)
    /\ alerts' = 0
    /\ last' = NoEvent
    /\ UNCHANGED << rowSym, label, editDisabled, priceText, priceCache, polls >>

\* the clear-open-positions fetch resolved (with any HTTP status)
ClearResolved(t) ==
    /\ toggles[t].pc = "clear"
    /\ toggles' = [toggles EXCEPT ![t].pc = "control",
                      ![t].log = @ \o << DoneClear,
                                         SentControl(toggles[t].action, toggles[t].pair) >>]
    /\ alerts' = 0
    /\ last' = NoEvent
    /\ UNCHANGED << rowSym, label, editDisabled, priceText, priceCache, polls >>

\* .catch of toggleBot, then .catch of the click handler
ToggleCatch(t, ev, alertsBefore) ==
    /\ editDisabled' = SetDisabled(editDisabled,
                                   EditPrefixed(ActionBtnId(toggles[t].pair)), FALSE)
    /\ alerts' = alertsBefore + 1
    /\ toggles' = [toggles EXCEPT ![t] = IdleToggle]
    /\ last' = [ev |-> ev, pair |-> toggles[t].pair, action |-> toggles[t].action]
    /\ UNCHANGED << rowSym, label, priceText, priceCache, polls >>

\* a fetch of the chain was rejected, or /api/control answered with a non-OK
\* status or a body that is not JSON
ToggleFailed(t) ==
    /\ toggles[t].pc \in {"clear", "control"}
    /\ ToggleCatch(t, "fail", 0)

\* /api/control answered {status: <contains 'invalid'>}
ControlInvalid(t, status) ==
    /\ toggles[t].pc = "control"
    /\ IsInvalidStatus(status)
    /\ ToggleCatch(t, "invalid", 1)

\* variant: the edit control looked up by "edit-" + the row's data-id
ConfirmedEditByDataId(ed, p, isRunning) ==
    SetDisabled(ed, EditPrefixed(DataId(p)), isRunning)

\* the display toggleBot sets from the confirmed flag
ConfirmedLabel(isRunning) == LabelFor(isRunning)
ConfirmedEdit(ed, p, isRunning) ==
    SetDisabled(ed, EditPrefixed(ActionBtnId(p)), isRunning)

\* /api/control answered {status, bot_is_running}; the click handler then
\* starts a full-data refresh
ControlSucceeded(t, status, isRunning) ==
    /\ toggles[t].pc = "control"
    /\ ~IsInvalidStatus(status)
    /\ FreePolls # {}
    /\ LET p == toggles[t].pair IN
        /\ label' = [label EXCEPT ![p] = ConfirmedLabel(isRunning)]
        /\ editDisabled' = ConfirmedEdit(editDisabled, p, isRunning)
        /\ polls' = StartRefresh(polls)
        /\ last' = [ev |-> "ok", pair |-> p, action |-> toggles[t].action]
    /\ toggles' = [toggles EXCEPT ![t] = IdleToggle]
    /\ alerts' = 0
    /\ UNCHANGED << rowSym, priceText, priceCache >>

(* ---------------------------------------------------------------------- *)
(* attachControlHandlers and the dispatch of a click (scripts.js)          *)
(* ---------------------------------------------------------------------- *)
\* variant: a listener is added to every button, bound or not
AttachedAgain(ls, bd) == [p \in Pairs |-> ls[p] + 1]

\* forEach(btn => { if (!btn.dataset.bound) btn.addEventListener('click', ...) })
Attached(ls, bd) == [p \in Pairs |-> IF bd[p] THEN ls[p] ELSE ls[p] + 1]

\* updateData().then(() => attachControlHandlers(toggleBot, updateData))
AttachControlHandlers ==
    /\ listeners' = Attached(listeners, bound)
    /\ bound' = [p \in Pairs |-> TRUE]
    /\ alerts' = 0
    /\ last' = NoEvent
    /\ UNCHANGED << rowSym, label, editDisabled, priceText, priceCache,
                    toggles, polls >>
    /\ UNCHANGED besidesCtrl

\* a click event runs the n listeners of the button, one after the other
RECURSIVE Dispatched(_, _, _)
Dispatched(tg, p, n) ==
    IF n = 0 THEN tg ELSE Dispatched(StartToggle(tg, p), p, n - 1)

\* the user clicks button action-<p>
ButtonClick(p) ==
    /\ Cardinality(FreeToggles) >= listeners[p]
    /\ toggles' = Dispatched(toggles, p, listeners[p])
    /\ alerts' = 0
    /\ last' = NoEvent
    /\ UNCHANGED << rowSym, label, editDisabled, priceText, priceCache, polls >>
    /\ UNCHANGED others

(* ---------------------------------------------------------------------- *)
(* Polls: updateAllBotStatuses (bot_control.js), updateData (market_data)  *)
(* ---------------------------------------------------------------------- *)
\* setInterval(updateAllBotStatuses, 5000), setInterval(updateData, 30000)
PollStart(kind) ==
    /\ FreePolls # {}
    /\ polls' = [polls EXCEPT ![Min(FreePolls)] = kind]
    /\ alerts' = 0
    /\ last' = NoEvent
    /\ UNCHANGED << rowSym, label, editDisabled, priceText, priceCache, toggles >>

\* the request was rejected or its body could not be read: .catch logs
PollFailed(k) ==
    /\ polls[k] # "none"
    /\ polls' = [polls EXCEPT ![k] = IdlePoll]
    /\ alerts' = 0
    /\ last' = NoEvent
    /\ UNCHANGED << rowSym, label, editDisabled, priceText, priceCache, toggles >>

\* /api/bot_statuses answered {pairId: boolean}
StatusesApplied(k, statuses) ==
    /\ polls[k] = "status"
    /\ label' = [p \in Pairs |->
                    IF p \in DOMAIN statuses THEN LabelFor(statuses[p]) ELSE label[p]]
    /\ editDisabled' = [e \in DomEditIds |->
                    IF \E p \in DOMAIN statuses : e = EditActionId(p)
                    THEN statuses[e[2]] ELSE editDisabled[e]]
    /\ polls' = [polls EXCEPT ![k] = IdlePoll]
    /\ alerts' = 0
    /\ last' = NoEvent
    /\ UNCHANGED << rowSym, priceText, priceCache, toggles >>

\* /api/data answered {prices, trade_status}; hasStatus: trade_status is present
DataApplied(k, prices, hasStatus, trade_status) ==
    /\ polls[k] = "data"
    /\ priceText' = [p \in Pairs |->
                    IF p \in RowsOf(prices) THEN FormatPrice(prices[SymbolOf(p)])
                    ELSE priceText[p]]
    /\ LET R == IF hasStatus THEN RowsOf(trade_status) ELSE {} IN
        /\ label' = [p \in Pairs |->
                        IF p \in R THEN LabelFor(trade_status[SymbolOf(p)]) ELSE label[p]]
        /\ editDisabled' = [e \in DomEditIds |->
                        IF \E p \in R : e = EditActionId(p)
                        THEN trade_status[SymbolOf(e[2])] ELSE editDisabled[e]]
    /\ polls' = [polls EXCEPT ![k] = IdlePoll]
    /\ alerts' = 0
    /\ last' = NoEvent
    /\ UNCHANGED << rowSym, priceCache, toggles >>

(* ---------------------------------------------------------------------- *)
(* Push channel and initial snapshot (scripts.js)                          *)
(* ---------------------------------------------------------------------- *)
\* socket.on('price_update'): {prices, trade_status}
PriceUpdate(prices, trade_status) ==
    /\ priceCache' = Spread(priceCache, prices)
    /\ marketText' = MarketDrawn(marketText, priceCache')
    /\ threw' = (threw \/ MarketThrows(DOMAIN marketText, priceCache'))
    /\ UNCHANGED << initFetch, besidesMarket >>
    /\ LET R == RowsOf(prices) IN
        /\ priceText' = [p \in Pairs |->
                        IF p \in R THEN FormatPrice(prices[SymbolOf(p)]) ELSE priceText[p]]
        /\ label' = [p \in Pairs |->
                        IF p \in R THEN LabelFor(Truthy(trade_status, SymbolOf(p)))
                        ELSE label[p]]
        /\ editDisabled' = [e \in DomEditIds |->
                        IF \E p \in R : e = EditPrefixed(DataId(p))
                        THEN Truthy(trade_status, SymbolOf(e[2])) ELSE editDisabled[e]]
    /\ alerts' = 0
    /\ last' = NoEvent
    /\ UNCHANGED << rowSym, toggles, polls >>

\* initializeApp on the market overview page: fetch('/api/data')
InitialFetchStart ==
    /\ initFetch = "idle"
    /\ initFetch' = "pending"
    /\ UNCHANGED << marketText, threw, besidesMarket >>
    /\ UNCHANGED << rowSym, label, editDisabled, priceText, priceCache,
                    toggles, polls, alerts, last >>

\* the market overview's /api/data answered {prices}: the cache is assigned,
\* then initializeMarketTable builds the rows and calls updateMarketTable;
\* a throw in either is caught and logged, and leaves the table without rows
InitialSnapshot(prices) ==
    /\ initFetch = "pending"
    /\ priceCache' = prices
    /\ LET built == [sym \in DOMAIN prices |-> InitialCell(prices[sym])]
           fails == \/ \E sym \in DOMAIN prices :
                          TruthyVal(prices[sym]) /\ ToFixedThrows(prices[sym])
                    \/ MarketThrows(DOMAIN prices, prices)
       IN  /\ marketText' = IF fails THEN marketText ELSE MarketDrawn(built, prices)
           /\ initFetch' = IF fails THEN "failed" ELSE "done"
    /\ UNCHANGED << threw, besidesMarket >>
    /\ UNCHANGED << rowSym, label, editDisabled, priceText,
                    toggles, polls, alerts, last >>

\* the market overview's fetch was rejected or its body was not JSON
InitialFetchFailed ==
    /\ initFetch = "pending"
    /\ initFetch' = "failed"
    /\ UNCHANGED << marketText, threw, besidesMarket >>
    /\ UNCHANGED << rowSym, label, editDisabled, priceText, priceCache,
                    toggles, polls, alerts, last >>

(* ---------------------------------------------------------------------- *)
(* Notifications (notifications.js) and the server's log                   *)
(* ---------------------------------------------------------------------- *)
\* the server logs a notification (each one once: timestamps do not repeat)
ServerLogs(n) ==
    /\ n \notin everLogged
    /\ serverNotes' = serverNotes \cup {n}
    /\ everLogged' = everLogged \cup {n}
    /\ UNCHANGED << seenNotifications, notificationList, notificationCount,
                    notePolls, clearReq, noteHist >>
    /\ UNCHANGED << dashVars, besidesNotes >>

FreeNotePolls == { k \in NotePollIds : notePolls[k].stage = "none" }
\* updateNotifications(): fetch('/api/notifications') is issued
StartNotePoll(ps) ==
    [ps EXCEPT ![Min({ k \in NotePollIds : ps[k].stage = "none" })] =
        [stage |-> "sent", body |-> {}]]

\* updateNotifications called by the 10 s timer, at start-up, or by updateData
NotePollStart ==
    /\ FreeNotePolls # {}
    /\ notePolls' = StartNotePoll(notePolls)
    /\ UNCHANGED << serverNotes, everLogged, seenNotifications, notificationList,
                    notificationCount, clearReq, noteHist >>
    /\ UNCHANGED << dashVars, besidesNotes >>

\* the server answers /api/notifications with its log
NotePollAnswered(k) ==
    /\ notePolls[k].stage = "sent"
    /\ notePolls' = [notePolls EXCEPT ![k] = [stage |-> "answered", body |-> serverNotes]]
    /\ UNCHANGED << serverNotes, everLogged, seenNotifications, notificationList,
                    notificationCount, clearReq, noteHist >>
    /\ UNCHANGED << dashVars, besidesNotes >>

\* the request was rejected or its body was not JSON: .catch logs
NotePollFailed(k) ==
    /\ notePolls[k].stage # "none"
    /\ notePolls' = [notePolls EXCEPT ![k] = IdleNotePoll]
    /\ UNCHANGED << serverNotes, everLogged, seenNotifications, notificationList,
                    notificationCount, clearReq, noteHist >>
    /\ UNCHANGED << dashVars, besidesNotes >>

\* Object.entries(data) and the messages of each symbol, in response order
NoteOrder == << ErrorNote, InfoNote >>
Messages(body) == SelectSeq(NoteOrder, LAMBDA n : n \in body)
\* Object.values(data).flat().length
FlatLength(body) == Len(Messages(body))

\* variant: every error message is alerted, seen or not
RECURSIVE SurfaceAll(_, _, _)
SurfaceAll(msgs, seen, alerted) ==
    IF msgs = << >> THEN [seen |-> seen, alerted |-> alerted]
    ELSE SurfaceAll(Tail(msgs), seen \cup {Head(msgs).symbol \o "-" \o Head(msgs).timestamp},
                    IF Head(msgs).type = "error"
                    THEN [alerted EXCEPT ![Head(msgs).symbol \o "-" \o Head(msgs).timestamp] = @ + 1]
                    ELSE alerted)

\* the forEach over the messages: an unseen id is added to the seen-set, and
\* alerted when its message is an error
RECURSIVE Surface(_, _, _)
Surface(msgs, seen, alerted) ==
    IF msgs = << >> THEN [seen |-> seen, alerted |-> alerted]
    ELSE LET msg == Head(msgs)
             id == NoteId(msg)
         IN  IF id \notin seen
             THEN Surface(Tail(msgs), seen \cup {id},
                          IF msg.type = "error"
                          THEN [alerted EXCEPT ![id] = @ + 1] ELSE alerted)
             ELSE Surface(Tail(msgs), seen, alerted)

\* variant: only the first message is rendered
RenderedFirst(msgs) ==
    [i \in 1..(IF msgs = << >> THEN 0 ELSE 1) |->
        [class |-> IF msgs[i].type = "error" THEN "text-danger" ELSE "text-success",
         text |-> msgs[i].symbol \o ": " \o msgs[i].message]]

\* the <li> of a message, the divider and the Clear All item
Entry(msg) ==
    [class |-> IF msg.type = "error" THEN "text-danger" ELSE "text-success",
     text |-> msg.symbol \o ": " \o msg.message]
Divider == [class |-> "dropdown-divider", text |-> ""]
ClearAllItem == [class |-> "text-center", text |-> "Clear All"]
Rendered(msgs) == [i \in 1..Len(msgs) |-> Entry(msgs[i])] \o << Divider, ClearAllItem >>

\* /api/notifications answered: updateNotifications' .then(data => ...)
NotesApplied(k) ==
    /\ notePolls[k].stage = "answered"
    /\ LET msgs == Messages(notePolls[k].body)
           done == Surface(msgs, seenNotifications, noteHist.alerted)
       IN  /\ notificationCount' = FlatLength(notePolls[k].body)
           /\ notificationList' = Rendered(msgs)
           /\ seenNotifications' = done.seen
           /\ noteHist' = [noteHist EXCEPT !.alerted = done.alerted,
                    !.delivered = [id \in NoteIds |->
                        IF id \in { NoteId(n) : n \in notePolls[k].body }
                        THEN (IF @[id] = "none" THEN "once" ELSE "again")
                        ELSE @[id]]]
    /\ notePolls' = [notePolls EXCEPT ![k] = IdleNotePoll]
    /\ UNCHANGED << serverNotes, everLogged, clearReq >>
    /\ UNCHANGED << dashVars, besidesNotes >>

\* click on the Clear All item: fetch('/clear_notifications')
ClearClick ==
    /\ ClearAllItem \in { notificationList[i] : i \in 1..Len(notificationList) }
    /\ clearReq = "none"
    /\ noteHist.clicks < MaxClears
    /\ clearReq' = "sent"
    /\ noteHist' = [noteHist EXCEPT !.clicks = @ + 1]
    /\ UNCHANGED << serverNotes, everLogged, seenNotifications, notificationList,
                    notificationCount, notePolls >>
    /\ UNCHANGED << dashVars, besidesNotes >>

\* the server handles /clear_notifications: "ok" empties its log; it may also
\* fail and answer an error status with a JSON body ("errjson") or with a body
\* that is not JSON ("errtext")
ClearOutcomes == { "ok", "errjson", "errtext" }
ClearServed(outcome) ==
    /\ clearReq = "sent"
    /\ clearReq' = outcome
    /\ serverNotes' = IF outcome = "ok" THEN {} ELSE serverNotes
    /\ UNCHANGED << everLogged, seenNotifications, notificationList,
                    notificationCount, notePolls, noteHist >>
    /\ UNCHANGED << dashVars, besidesNotes >>

\* response.json() resolved, whatever the HTTP status
ClearParses(req) == req \in { "ok", "errjson" }

\* clearNotifications' .then(() => { seenNotifications.clear();
\*                                   return updateNotifications(); })
ClearApplied ==
    /\ ClearParses(clearReq)
    /\ FreeNotePolls # {}
    /\ seenNotifications' = {}
    /\ notePolls' = StartNotePoll(notePolls)
    /\ noteHist' = [noteHist EXCEPT !.resets = TRUE]
    /\ clearReq' = "none"
    /\ UNCHANGED << serverNotes, everLogged, notificationList, notificationCount >>
    /\ UNCHANGED << dashVars, besidesNotes >>

\* the request was rejected, or its body was not JSON: .catch logs
ClearFailed ==
    /\ clearReq # "none" /\ ~ClearParses(clearReq)
    /\ clearReq' = "none"
    /\ UNCHANGED << serverNotes, everLogged, seenNotifications, notificationList,
                    notificationCount, notePolls, noteHist >>
    /\ UNCHANGED << dashVars, besidesNotes >>

(* ---------------------------------------------------------------------- *)
(* Open positions: renderOpenPositions (market_data.js)                    *)
(* ---------------------------------------------------------------------- *)
\* variant: the key is the symbol alone
KeyBySymbol(pos) == pos.symbol \o << "|" >>

\* `${pos.symbol}|${pos.exchange}`
KeyOf(pos) == pos.symbol \o << "|" >> \o pos.exchange

\* String.prototype.split
RECURSIVE Split(_, _)
Split(str, sep) ==
    LET at == { i \in 1..Len(str) : str[i] = sep }
    IN  IF at = {} THEN << str >>
        ELSE << SubSeq(str, 1, Min(at) - 1) >>
                \o Split(SubSeq(str, Min(at) + 1, Len(str)), sep)

\* symbol.replace(/[^a-zA-Z0-9]/g, '')
NonAlnum == { "|", "/", "-", "_", " " }
StripNonAlnum(str) == SelectSeq(str, LAMBDA ch : ch \notin NonAlnum)
\* `pos-group-${symbol.replace(...)}-${exchange}`
GroupClass(symbol, exchange) ==
    << "pos-group-" >> \o StripNonAlnum(symbol) \o << "-" >> \o exchange

\* the keys of grouped, in insertion order
RECURSIVE GroupKeys(_, _)
GroupKeys(list, keys) ==
    IF list = << >> THEN keys
    ELSE LET key == KeyOf(Head(list))
         IN  GroupKeys(Tail(list),
                       IF \E i \in 1..Len(keys) : keys[i] = key
                       THEN keys ELSE Append(keys, key))
\* grouped[key]
Grouped(list, key) == SelectSeq(list, LAMBDA pos : KeyOf(pos) = key)

\* positions.reduce((s, p) => s + f(p), 0), over the values f(p)
RECURSIVE Reduce(_)
Reduce(nums) == IF nums = << >> THEN 0 ELSE Head(nums) + Reduce(Tail(nums))
\* p.current_pnl > 0 ? p.current_pnl : 0 (null compares as 0)
GainOf(pos) ==
    IF pos.current_pnl[1] = "num" /\ pos.current_pnl[2] > 0 THEN pos.current_pnl[2] ELSE 0
\* p.current_pnl < 0 ? p.current_pnl : 0
LossOf(pos) ==
    IF pos.current_pnl[1] = "num" /\ pos.current_pnl[2] < 0 THEN pos.current_pnl[2] ELSE 0
\* Math.abs
Abs(n) == IF n < 0 THEN 0 - n ELSE n
\* modes.length === 1 ? modes[0] : 'mixed'
ModeLabel(positions) ==
    LET modes == { positions[i].trading_mode : i \in 1..Len(positions) }
    IN  IF Cardinality(modes) = 1 THEN CHOOSE mode \in modes : TRUE ELSE "mixed"

\* the header row of a group (its cells, data attributes and chevron) and
\* the group's detail rows (how many, and whether they carry "show")
Header(key, positions, expanded) ==
    LET parts == Split(key, "|")
        symbol == parts[1]
        exchange == parts[2]
    IN  [symbol |-> symbol, exchange |-> exchange,
         groupKey |-> GroupClass(symbol, exchange),
         modeLabel |-> ModeLabel(positions),
         totalQty |-> Reduce([i \in 1..Len(positions) |-> positions[i].quantity]),
         totalProfit |-> Reduce([i \in 1..Len(positions) |-> GainOf(positions[i])]),
         totalLoss |-> Abs(Reduce([i \in 1..Len(positions) |-> LossOf(positions[i])])),
         rows |-> Len(positions),
         hasHeader |-> TRUE,
         show |-> GroupClass(symbol, exchange) \in expanded,
         icon |-> IF GroupClass(symbol, exchange) \in expanded
                  THEN "bi-chevron-up" ELSE "bi-chevron-down"]

\* tbody.querySelector(`tr.${key}`): the first detail row of that class, as
\* the index of its group, or 0
FirstRowOf(table, key) ==
    LET found == { g \in 1..Len(table) : table[g].groupKey = key /\ table[g].rows > 0 }
    IN  IF found = {} THEN 0 ELSE Min(found)
\* the group keys captured before the re-render
ExpandedKeys(table) ==
    { table[g].groupKey : g \in { h \in 1..Len(table) :
        /\ table[h].hasHeader
        /\ FirstRowOf(table, table[h].groupKey) # 0
        /\ table[FirstRowOf(table, table[h].groupKey)].show } }

\* variant: the expanded groups are not captured
RenderCollapsed(table, list) ==
    LET keys == GroupKeys(list, << >>)
    IN  [g \in 1..Len(keys) |-> Header(keys[g], Grouped(list, keys[g]), {})]

\* Object.entries(grouped).forEach(...): one header per key
RenderOpenPositions(table, list) ==
    LET keys == GroupKeys(list, << >>)
    IN  [g \in 1..Len(keys) |->
            Header(keys[g], Grouped(list, keys[g]), ExpandedKeys(table))]

\* /api/open_positions answered an array: renderOpenPositions(positions)
PositionsApplied ==
    /\ posResponse.stage = "answered"
    /\ posTable' = RenderOpenPositions(posTable, posResponse.list)
    /\ posResponse' = [posResponse EXCEPT !.stage = "rendered"]
    /\ removeReqs' = [r \in RemoveIds |-> [removeReqs[r] EXCEPT !.attached = FALSE]]
    /\ UNCHANGED posRefreshes
    /\ UNCHANGED << dashVars, besidesPos >>

\* setInterval(() => updateData()...): a refresh is started
PositionsPollStart ==
    /\ posRefreshes < MaxPosPolls
    /\ posRefreshes' = posRefreshes + 1
    /\ UNCHANGED << posResponse, posTable, removeReqs >>
    /\ UNCHANGED << dashVars, besidesPos >>

\* /api/open_positions of a refresh answers with a list
PositionsAnswered(list) ==
    /\ posRefreshes > 0
    /\ posResponse.stage # "answered"
    /\ posRefreshes' = posRefreshes - 1
    /\ posResponse' = [stage |-> "answered", list |-> list]
    /\ UNCHANGED << posTable, removeReqs >>
    /\ UNCHANGED << dashVars, besidesPos >>

\* variant: the other groups are left as they are
ToggledAlone(table, g) ==
    LET key == table[g].groupKey
        first == FirstRowOf(table, key)
        expanded == first # 0 /\ table[first].show
    IN  [h \in 1..Len(table) |->
            [table[h] EXCEPT
                !.show = IF table[h].groupKey = key /\ table[h].rows > 0
                         THEN ~expanded ELSE @,
                !.icon = IF h = g
                         THEN (IF expanded THEN "bi-chevron-down" ELSE "bi-chevron-up")
                         ELSE @]]

\* the click handler of a toggle-pos button: every row loses "show" and every
\* chevron points down; unless the target rows were shown, they get "show"
\* and the button's chevron points up
Toggled(table, g) ==
    LET key == table[g].groupKey
        first == FirstRowOf(table, key)
        expanded == first # 0 /\ table[first].show
    IN  [h \in 1..Len(table) |->
            [table[h] EXCEPT
                !.show = ~expanded /\ table[h].groupKey = key /\ table[h].rows > 0,
                !.icon = IF ~expanded /\ h = g
                         THEN "bi-chevron-up" ELSE "bi-chevron-down"]]

TogglePosClick(g) ==
    /\ g \in 1..Len(posTable) /\ posTable[g].hasHeader
    /\ posTable' = Toggled(posTable, g)
    /\ UNCHANGED << posResponse, removeReqs, posRefreshes >>
    /\ UNCHANGED << dashVars, besidesPos >>

\* JSON.stringify({ symbol, exchange, trading_mode: mode === 'mixed' ? null : mode })
SentMode(mode) == IF mode = "mixed" THEN << "null", "" >> ELSE << "str", mode >>
FreeRemoves == { r \in RemoveIds : removeReqs[r].stage = "none" }

\* the click handler of a remove-pos button, confirmed
RemovePosClick(g) ==
    /\ g \in 1..Len(posTable) /\ posTable[g].hasHeader
    /\ FreeRemoves # {}
    /\ removeReqs' = [removeReqs EXCEPT ![Min(FreeRemoves)] =
            [stage |-> "sent", symbol |-> posTable[g].symbol,
             exchange |-> posTable[g].exchange,
             trading_mode |-> SentMode(posTable[g].modeLabel), attached |-> TRUE]]
    /\ UNCHANGED << posResponse, posTable, posRefreshes >>
    /\ UNCHANGED << dashVars, besidesPos >>

\* the same click, not confirmed: the handler returns
RemovePosDeclined(g) ==
    /\ g \in 1..Len(posTable) /\ posTable[g].hasHeader
    /\ UNCHANGED << posResponse, posTable, removeReqs, posRefreshes >>
    /\ UNCHANGED << dashVars, besidesPos >>

\* headerRow.remove() for the header of the clicked button, if that row is
\* still in the document; then every row of class groupClass is removed
Pruned(table, req) ==
    LET groupClass == GroupClass(req.symbol, req.exchange)
        left == [h \in 1..Len(table) |->
                    [table[h] EXCEPT
                        !.hasHeader = @ /\ ~(/\ req.attached
                                             /\ table[h].symbol = req.symbol
                                             /\ table[h].exchange = req.exchange),
                        !.rows = IF table[h].groupKey = groupClass THEN 0 ELSE @,
                        !.show = @ /\ table[h].groupKey # groupClass]]
    IN  SelectSeq(left, LAMBDA e : e.hasHeader \/ e.rows > 0)

RemoveStatuses == { "success", "error" }
\* clear_open_positions answered JSON: on 'success' the group is pruned,
\* otherwise an alert; then updateData()
RemoveResolved(r, status) ==
    /\ removeReqs[r].stage = "sent"
    /\ posTable' = IF status = "success" THEN Pruned(posTable, removeReqs[r])
                                        ELSE posTable
    /\ removeReqs' = [q \in RemoveIds |->
            IF q = r THEN [NoRemove EXCEPT !.stage = "done"]
            ELSE IF /\ status = "success" /\ removeReqs[r].attached
                    /\ removeReqs[q].symbol = removeReqs[r].symbol
                    /\ removeReqs[q].exchange = removeReqs[r].exchange
                 THEN [removeReqs[q] EXCEPT !.attached = FALSE]
                 ELSE removeReqs[q]]
    /\ posRefreshes' = posRefreshes + 1
    /\ UNCHANGED posResponse
    /\ UNCHANGED << dashVars, besidesPos >>

\* the request was rejected or its body was not JSON: the chain has no catch
RemoveRejected(r) ==
    /\ removeReqs[r].stage = "sent"
    /\ removeReqs' = [removeReqs EXCEPT ![r] = [NoRemove EXCEPT !.stage = "done"]]
    /\ UNCHANGED << posResponse, posTable, posRefreshes >>
    /\ UNCHANGED << dashVars, besidesPos >>

(* ---------------------------------------------------------------------- *)
(* Account accordion: renderAccountInfo, renderPairProfits (market_data.js) *)
(* ---------------------------------------------------------------------- *)
\* the entries of an object keyed by account key, in key order
KeysIn(obj) == SelectSeq(AcctKeys, LAMBDA key : key \in DOMAIN obj)
\* ids of the collapse elements that have class "show"
ExpandedIds(items) == { items[i].key : i \in { j \in 1..Len(items) : items[j].show } }

\* one accordion item: its heading (balance, pnl spans, active pairs), its
\* collapse element, its Reset All item and its empty profit table
AccountItem(key, info, expanded) ==
    [key |-> key, balance |-> info.balance,
     usdc |-> << "raw", info.pnl.usdc >>, crypto |-> << "raw", info.pnl.crypto >>,
     active |-> info.active_pairs, show |-> key \in expanded,
     resetAllDisabled |-> FALSE, rows |-> << >>]

\* variant: the container is not emptied before the items are appended
RenderAccountAppend(items, accountInfo) ==
    items \o [i \in 1..Len(KeysIn(accountInfo)) |->
                AccountItem(KeysIn(accountInfo)[i], accountInfo[KeysIn(accountInfo)[i]],
                            ExpandedIds(items))]

\* renderAccountInfo: container.innerHTML = '', then one item per entry
RenderAccountInfo(items, accountInfo) ==
    LET keys == KeysIn(accountInfo)
    IN  [i \in 1..Len(keys) |->
            AccountItem(keys[i], accountInfo[keys[i]], ExpandedIds(items))]

\* a row of a profit table
ProfitRow(p, status) ==
    [pair_id |-> p.pair_id, symbol |-> p.symbol,
     usdc |-> << "fixed4", ToFixed4(p.profit_usdc) >>,
     crypto |-> << "fixed6", p.profit_crypto >>,
     disabled |-> Truthy(status, p.symbol)]
\* the item that getElementById(`profit-body-${key}`) belongs to, or 0
ItemOf(items, key) ==
    LET found == { i \in 1..Len(items) : items[i].key = key }
    IN  IF found = {} THEN 0 ELSE Min(found)
\* the body of renderPairProfits' forEach for one key
WithProfits(items, key, list, status) ==
    LET i == ItemOf(items, key)
    IN  IF i = 0 THEN items
        ELSE [items EXCEPT
                ![i].rows = [r \in 1..Len(list) |-> ProfitRow(list[r], status)],
                ![i].resetAllDisabled =
                    \E r \in 1..Len(list) : Truthy(status, list[r].symbol),
                ![i].usdc = << "fixed4",
                    ToFixed4(Reduce([r \in 1..Len(list) |-> list[r].profit_usdc])) >>,
                ![i].crypto = << "fixed6",
                    Reduce([r \in 1..Len(list) |-> list[r].profit_crypto]) >>]
\* renderPairProfits: Object.entries(grouped).forEach
RECURSIVE RenderPairProfits(_, _, _, _)
RenderPairProfits(items, keys, grouped, status) ==
    IF keys = << >> THEN items
    ELSE RenderPairProfits(WithProfits(items, Head(keys), grouped[Head(keys)], status),
                           Tail(keys), grouped, status)

\* updateData's /api/data handler beyond the pair table: currentTradeStatus,
\* the account accordion, and the chain's next request, /api/pair_profit
SnapshotRest(d) ==
    /\ currentTradeStatus' = IF d.hasStatus THEN d.trade_status ELSE currentTradeStatus
    /\ accountItems' = IF d.hasAccount
                        THEN RenderAccountInfo(accountItems, d.account_info)
                        ELSE accountItems
    /\ profitFetches' = profitFetches + 1
    /\ UNCHANGED profitReqs
    /\ UNCHANGED besidesAcct

\* the state outside the account accordion and the open-positions view
besidesViews == << dashVars, marketVars, noteVars, ledgerVars, ctrlVars >>

\* /api/pair_profit answered an object: renderPairProfits(profits)
ProfitsRendered(grouped) ==
    /\ profitFetches > 0
    /\ profitFetches' = profitFetches - 1
    /\ accountItems' = RenderPairProfits(accountItems, KeysIn(grouped), grouped,
                                          currentTradeStatus)
    /\ UNCHANGED << currentTradeStatus, profitReqs >>
    /\ UNCHANGED besidesViews

\* the pair-profit stage seen from the account accordion
ProfitsApplied(grouped) ==
    /\ ProfitsRendered(grouped)
    /\ UNCHANGED posVars

\* /api/pair_profit was rejected or its body was not JSON: .catch logs
ProfitsCaught ==
    /\ profitFetches > 0
    /\ profitFetches' = profitFetches - 1
    /\ UNCHANGED << currentTradeStatus, accountItems, profitReqs >>
    /\ UNCHANGED besidesViews

\* the failed pair-profit stage seen from the account accordion
ProfitsFailed ==
    /\ ProfitsCaught
    /\ UNCHANGED posVars

\* variant: the chain goes on to its next request after the failure
RequestedAnyway(n) == n + 1

\* a rejection skips every later .then of the chain: no further request
Skipped(n) == n

\* .then(() => fetch('/api/open_positions')) after the profits were rendered
RefreshProfitsApplied(grouped) ==
    /\ posRefreshes < MaxPosPolls
    /\ ProfitsRendered(grouped)
    /\ posRefreshes' = posRefreshes + 1
    /\ UNCHANGED << posResponse, posTable, removeReqs >>

\* the pair-profit stage failed: .catch at the end of the chain
RefreshProfitsFailed ==
    /\ ProfitsCaught
    /\ posRefreshes' = Skipped(posRefreshes)
    /\ UNCHANGED << posResponse, posTable, removeReqs >>

\* /api/open_positions was rejected or its body was not JSON: .catch logs
PositionsFailed ==
    /\ posRefreshes > 0
    /\ posRefreshes' = posRefreshes - 1
    /\ UNCHANGED << posResponse, posTable, removeReqs >>
    /\ UNCHANGED << dashVars, besidesPos >>

\* the rows of the profit tables, as (item, row) positions in document order
RowsWithId(items, id) ==
    UNION { { << i, r >> : r \in { j \in 1..Len(items[i].rows) :
                                    items[i].rows[j].pair_id = id } } :
            i \in 1..Len(items) }
FirstOf(S) ==
    CHOOSE x \in S : \A y \in S : x[1] < y[1] \/ (x[1] = y[1] /\ x[2] <= y[2])
\* parseFloat(el.textContent) || 0 of a cell, in the unit of its column
ParseFloat(cell) == IF cell[1] = "text" THEN 0 ELSE cell[2]
\* parseFloat of getElementById(`profit-usdc-info-${id}`) and of its crypto
\* twin: the cells of the first row that carries the id
UsdcOf(items, id) ==
    IF RowsWithId(items, id) = {} THEN 0
    ELSE ParseFloat(items[FirstOf(RowsWithId(items, id))[1]]
                        .rows[FirstOf(RowsWithId(items, id))[2]].usdc)
CryptoOf(items, id) ==
    IF RowsWithId(items, id) = {} THEN 0
    ELSE ParseFloat(items[FirstOf(RowsWithId(items, id))[1]]
                        .rows[FirstOf(RowsWithId(items, id))[2]].crypto)

\* a sequence without its element at position r
Without(seq, r) == [j \in 1..(Len(seq) - 1) |-> IF j < r THEN seq[j] ELSE seq[j + 1]]

\* the click handler of a row's reset or remove button, confirmed
FreeProfitReqs == { r \in ProfitReqIds : profitReqs[r].stage = "none" }
ProfitClick(kind, id) ==
    /\ FreeProfitReqs # {}
    /\ \E at \in RowsWithId(accountItems, id) :
            ~accountItems[at[1]].rows[at[2]].disabled
    /\ profitReqs' = [profitReqs EXCEPT ![Min(FreeProfitReqs)] =
                        [stage |-> "sent", kind |-> kind, pair_id |-> id]]
    /\ UNCHANGED << currentTradeStatus, accountItems, profitFetches >>
    /\ UNCHANGED << dashVars, besidesAcct >>

\* the request was rejected or its body was not JSON: .catch logs
ProfitReqRejected(r) ==
    /\ profitReqs[r].stage = "sent"
    /\ profitReqs' = [profitReqs EXCEPT ![r] = [NoProfitReq EXCEPT !.stage = "done"]]
    /\ UNCHANGED << currentTradeStatus, accountItems, profitFetches >>
    /\ UNCHANGED << dashVars, besidesAcct >>

\* resetProfit on 'success': both cells of the pair read '0.0'
ResetCells(items, id) ==
    IF RowsWithId(items, id) = {} THEN items
    ELSE LET at == FirstOf(RowsWithId(items, id))
         IN  [items EXCEPT ![at[1]].rows[at[2]].usdc = << "text", "0.0" >>,
                           ![at[1]].rows[at[2]].crypto = << "text", "0.0" >>]

ProfitStatuses == { "success", "error" }
\* /api/reset_profit answered JSON
ResetResolved(r, status) ==
    /\ profitReqs[r].stage = "sent" /\ profitReqs[r].kind = "reset"
    /\ accountItems' = IF status = "success"
                        THEN ResetCells(accountItems, profitReqs[r].pair_id)
                        ELSE accountItems
    /\ alerts' = IF status = "success" THEN 0 ELSE 1
    /\ last' = NoEvent
    /\ profitReqs' = [profitReqs EXCEPT ![r] = [NoProfitReq EXCEPT !.stage = "done"]]
    /\ UNCHANGED << currentTradeStatus, profitFetches >>
    /\ UNCHANGED << rowSym, label, editDisabled, priceText, priceCache, toggles, polls >>
    /\ UNCHANGED besidesAcct

\* variant: the row is removed and the heading is left as it is
RemoveRowOnly(items, id) ==
    IF RowsWithId(items, id) = {} THEN items
    ELSE LET at == FirstOf(RowsWithId(items, id))
         IN  [items EXCEPT ![at[1]].rows = Without(items[at[1]].rows, at[2])]

\* removePairProfit on 'success': the first row of the pair is removed and
\* the heading of its table's account gets the sums of the remaining cells
RemoveRow(items, id) ==
    IF RowsWithId(items, id) = {} THEN items
    ELSE LET at == FirstOf(RowsWithId(items, id))
             left == [items EXCEPT ![at[1]].rows = Without(items[at[1]].rows, at[2])]
             rows == left[at[1]].rows
             h == ItemOf(left, items[at[1]].key)
         IN  [left EXCEPT
                ![h].usdc = << "fixed4",
                    Reduce([j \in 1..Len(rows) |-> UsdcOf(left, rows[j].pair_id)]) >>,
                ![h].crypto = << "fixed6",
                    Reduce([j \in 1..Len(rows) |-> CryptoOf(left, rows[j].pair_id)]) >>]

\* /api/remove_pair_profit answered JSON; then updateData()
RemoveProfitResolved(r, status) ==
    /\ profitReqs[r].stage = "sent" /\ profitReqs[r].kind = "remove"
    /\ FreePolls # {}
    /\ accountItems' = IF status = "success"
                        THEN RemoveRow(accountItems, profitReqs[r].pair_id)
                        ELSE accountItems
    /\ alerts' = IF status = "success" THEN 0 ELSE 1
    /\ last' = NoEvent
    /\ polls' = StartRefresh(polls)
    /\ profitReqs' = [profitReqs EXCEPT ![r] = [NoProfitReq EXCEPT !.stage = "done"]]
    /\ UNCHANGED << currentTradeStatus, profitFetches >>
    /\ UNCHANGED << rowSym, label, editDisabled, priceText, priceCache, toggles >>
    /\ UNCHANGED besidesAcct

\* what a snapshot leaves on display
Display == << priceCache, priceText, label, editDisabled, accountItems >>

(* ---------------------------------------------------------------------- *)
(* The profit ledger: loadProfitLogData, initTradesPage,                   *)
(* updatePaginationControls (trades.js)                                    *)
(* ---------------------------------------------------------------------- *)
FreeLedgerReqs == { r \in LedgerReqIds : ledgerReqs[r] = NoLedgerReq }

\* variant: the request is built before the cursor is assigned
LoadStaleCursor(page, timeframe, sort) ==
    /\ FreeLedgerReqs # {}
    /\ currentPage' = page
    /\ ledgerReqs' = [ledgerReqs EXCEPT ![Min(FreeLedgerReqs)] =
                        LedgerQuery(currentPage, timeframe, sort)]

\* loadProfitLogData(page), with the timeframe and sort key it reads
LoadProfitLogData(page, timeframe, sort) ==
    /\ FreeLedgerReqs # {}
    /\ currentPage' = page
    /\ ledgerReqs' = [ledgerReqs EXCEPT ![Min(FreeLedgerReqs)] =
                        LedgerQuery(page, timeframe, sort)]

\* initializeApp on the trades page: loadProfitLogData()
InitialLoad ==
    /\ ledgerBody = << >> /\ FreeLedgerReqs = LedgerReqIds
    /\ LoadProfitLogData(1, currentTimeframe, currentSort)
    /\ UNCHANGED << currentTimeframe, currentSort, ledgerBody, paginationControls >>
    /\ UNCHANGED << dashVars, besidesLedger >>

\* 'change' on timeframe-select
TimeframeChange(value) ==
    /\ value # currentTimeframe
    /\ currentTimeframe' = value
    /\ LoadProfitLogData(1, value, currentSort)
    /\ UNCHANGED << currentSort, ledgerBody, paginationControls >>
    /\ UNCHANGED << dashVars, besidesLedger >>

\* 'change' on sort-select
SortChange(value) ==
    /\ value # currentSort
    /\ currentSort' = value
    /\ LoadProfitLogData(1, currentTimeframe, value)
    /\ UNCHANGED << currentTimeframe, ledgerBody, paginationControls >>
    /\ UNCHANGED << dashVars, besidesLedger >>

\* 'click' on reset-profit-btn
ResetClick ==
    /\ currentTimeframe' = "all"
    /\ currentSort' = "timestamp"
    /\ LoadProfitLogData(1, "all", "timestamp")
    /\ UNCHANGED << ledgerBody, paginationControls >>
    /\ UNCHANGED << dashVars, besidesLedger >>

\* 'click' on Previous: the handler's currentPage is the page the controls
\* were rendered for
PreviousClick ==
    /\ paginationControls # NoControls
    /\ paginationControls[1].page > 1
    /\ LoadProfitLogData(paginationControls[1].page - 1, currentTimeframe, currentSort)
    /\ UNCHANGED << currentTimeframe, currentSort, ledgerBody, paginationControls >>
    /\ UNCHANGED << dashVars, besidesLedger >>

\* 'click' on Next
NextClick ==
    /\ paginationControls # NoControls
    /\ paginationControls[1].page < paginationControls[1].totalPages
    /\ LoadProfitLogData(paginationControls[1].page + 1, currentTimeframe, currentSort)
    /\ UNCHANGED << currentTimeframe, currentSort, ledgerBody, paginationControls >>
    /\ UNCHANGED << dashVars, besidesLedger >>

\* updatePaginationControls(totalPages, currentPage): the container is
\* emptied; with more than one page it gets Previous, the page and Next
UpdatePaginationControls(totalPages, page) ==
    IF totalPages <= 1 THEN NoControls
    ELSE << [prevDisabled |-> (page = 0 \/ page = 1),
             page |-> page,
             nextDisabled |-> (page = 0 \/ page = totalPages),
             totalPages |-> totalPages] >>

\* data.current_page || 1 (data.total_pages || 0 is the number itself)
OrOne(n) == IF n = 0 THEN 1 ELSE n

\* a row of the ledger table for an entry, the 'no entries' row, the error rows
EntryRow(entry) == << "entry", entry >>
NoEntriesRow == << "text", "No profit/loss entries found." >>
ErrorRow == << "text", "Error loading data" >>

\* variant: the rows are appended to those of the table
RowsAppended(body, entries) ==
    body \o (IF entries = << >> THEN << NoEntriesRow >>
             ELSE [i \in 1..Len(entries) |-> EntryRow(entries[i])])

\* tbody.innerHTML = '', then the 'no entries' row or one row per entry
RowsRendered(body, entries) ==
    IF entries = << >> THEN << NoEntriesRow >>
    ELSE [i \in 1..Len(entries) |-> EntryRow(entries[i])]

\* a page response is applied
PageApplied(r, data) ==
    /\ ledgerReqs[r] # NoLedgerReq
    /\ ledgerReqs' = [ledgerReqs EXCEPT ![r] = NoLedgerReq]
    /\ ledgerBody' = RowsRendered(ledgerBody, data.entries)
    /\ paginationControls' =
            IF data.entries = << >>
            THEN UpdatePaginationControls(data.total_pages, OrOne(data.current_page))
            ELSE UpdatePaginationControls(data.total_pages, data.current_page)
    /\ UNCHANGED << currentPage, currentTimeframe, currentSort >>
    /\ UNCHANGED << dashVars, besidesLedger >>

\* the response is {error}, or the request was rejected: an error row
PageFailed(r) ==
    /\ ledgerReqs[r] # NoLedgerReq
    /\ ledgerReqs' = [ledgerReqs EXCEPT ![r] = NoLedgerReq]
    /\ ledgerBody' = << ErrorRow >>
    /\ UNCHANGED << currentPage, currentTimeframe, currentSort, paginationControls >>
    /\ UNCHANGED << dashVars, besidesLedger >>

(* ---------------------------------------------------------------------- *)
(* History                                                                 *)
(* ---------------------------------------------------------------------- *)
BusyPolls == PollIds \ FreePolls

\* toggle t was clicked on pair p
HistClick(h, t, p) ==
    [h EXCEPT !.shown[t] = << label[p], editDisabled[EditActionId(p)] >>,
              !.atClick[t] = BusyPolls]

\* toggle t settled
HistSettled(h, t) ==
    [h EXCEPT !.shown[t] = NoShown, !.atClick[t] = {}]

\* a handler w wrote the rows R: the polls of Older note w for them, every
\* other poll forgets what it had noted for them
HistWrote(h, R, w, Older) ==
    [h EXCEPT !.newer =
        [k \in PollIds |-> [p \in Pairs |->
            IF p \in R THEN (IF k \in Older THEN w ELSE "none") ELSE h.newer[k][p]]]]

\* poll k ended
HistPollEnd(h, k) ==
    [h EXCEPT !.newer[k] = [p \in Pairs |-> "none"],
              !.atClick = [t \in ToggleIds |-> h.atClick[t] \ {k}]]

(* ---------------------------------------------------------------------- *)
(* Specifications                                                          *)
(* ---------------------------------------------------------------------- *)
\* the dashboard: clicks, both polls and the push channel
Next ==
    \/ \E p \in Pairs : ToggleClick(p) /\ UNCHANGED << hist, others >>
    \/ \E t \in ToggleIds : ClearResolved(t) /\ UNCHANGED << hist, others >>
    \/ \E t \in ToggleIds : ToggleFailed(t) /\ UNCHANGED << hist, others >>
    \/ \E t \in ToggleIds, s \in StatusVals : ControlInvalid(t, s) /\ UNCHANGED << hist, others >>
    \/ \E t \in ToggleIds, s \in StatusVals, r \in BOOLEAN :
          ControlSucceeded(t, s, r) /\ UNCHANGED << hist, others >>
    \/ \E kind \in {"status", "data"} : PollStart(kind) /\ UNCHANGED << hist, others >>
    \/ \E k \in PollIds : PollFailed(k) /\ UNCHANGED << hist, others >>
    \/ \E k \in PollIds, st \in BotStatusMaps :
          StatusesApplied(k, st) /\ UNCHANGED << hist, others >>
    \/ \E k \in PollIds, pr \in SinglePriceMaps, ts \in StatusMaps :
          DataApplied(k, pr, TRUE, ts) /\ UNCHANGED << hist, others >>
    \/ \E k \in PollIds, pr \in SinglePriceMaps :
          DataApplied(k, pr, FALSE, EmptyMap) /\ UNCHANGED << hist, others >>
    \/ \E pr \in SinglePriceMaps, ts \in StatusMaps :
          PriceUpdate(pr, ts) /\ UNCHANGED hist

Spec == Init /\ [][Next]_vars

\* clicks and polls, with the history of what each toggle and poll raced with
ToggleRaceNext ==
    \/ \E p \in Pairs :
          /\ ToggleClick(p) /\ hist' = HistClick(hist, Min(FreeToggles), p)
          /\ UNCHANGED others
    \/ \E t \in ToggleIds : ClearResolved(t) /\ UNCHANGED << hist, others >>
    \/ \E t \in ToggleIds :
          ToggleFailed(t) /\ hist' = HistSettled(hist, t) /\ UNCHANGED others
    \/ \E t \in ToggleIds, s \in StatusVals :
          ControlInvalid(t, s) /\ hist' = HistSettled(hist, t) /\ UNCHANGED others
    \/ \E t \in ToggleIds, s \in StatusVals, r \in BOOLEAN :
          /\ ControlSucceeded(t, s, r)
          /\ hist' = HistSettled(
                HistWrote(hist, {toggles[t].pair}, "toggle", hist.atClick[t]), t)
          /\ UNCHANGED others
    \/ \E kind \in {"status", "data"} :
          PollStart(kind) /\ UNCHANGED << hist, others >>
    \/ \E k \in PollIds :
          PollFailed(k) /\ hist' = HistPollEnd(hist, k) /\ UNCHANGED others
    \/ \E k \in PollIds, st \in BotStatusMaps :
          /\ StatusesApplied(k, st)
          /\ hist' = HistPollEnd(HistWrote(hist, DOMAIN st, "none", {}), k)
          /\ UNCHANGED others
    \/ \E k \in PollIds, pr \in SinglePriceMaps, ts \in StatusMaps :
          /\ DataApplied(k, pr, TRUE, ts)
          /\ hist' = HistPollEnd(
                HistWrote(hist, RowsOf(pr) \cup RowsOf(ts), "none", {}), k)
          /\ UNCHANGED others

SpecToggleRace == Init /\ [][ToggleRaceNext]_vars

\* the push channel and the polls, with two price values and the history of
\* what each poll raced with
PushRaceNext ==
    \/ PollStart("data") /\ UNCHANGED << hist, others >>
    \/ \E k \in PollIds :
          PollFailed(k) /\ hist' = HistPollEnd(hist, k) /\ UNCHANGED others
    \/ \E k \in PollIds, pr \in PriceMaps, ts \in StatusMaps :
          /\ DataApplied(k, pr, TRUE, ts)
          /\ hist' = HistPollEnd(
                HistWrote(hist, RowsOf(pr) \cup RowsOf(ts), "none", {}), k)
          /\ UNCHANGED others
    \/ \E pr \in PriceMaps, ts \in StatusMaps :
          /\ PriceUpdate(pr, ts)
          /\ hist' = HistWrote(hist, RowsOf(pr), "push", BusyPolls)

SpecPushRace == Init /\ [][PushRaceNext]_vars

\* the price cache and the price cells: the market overview's initial
\* snapshot, push deltas and full-data polls, with price values of every kind
CacheNext ==
    \/ InitialFetchStart /\ UNCHANGED hist
    \/ \E pr \in AnyPriceMaps : InitialSnapshot(pr) /\ UNCHANGED hist
    \/ InitialFetchFailed /\ UNCHANGED hist
    \/ \E pr \in AnyPriceMaps : PriceUpdate(pr, EmptyMap) /\ UNCHANGED hist
    \/ FreePolls = PollIds /\ PollStart("data") /\ UNCHANGED << hist, others >>
    \/ \E k \in PollIds, pr \in AnyPriceMaps :
          DataApplied(k, pr, FALSE, EmptyMap) /\ UNCHANGED << hist, others >>

SpecCache == Init /\ [][CacheNext]_vars

\* the notification dropdown: the server's log, the notification polls and
\* the Clear All action
NotificationsNext ==
    \/ \E n \in Notes : ServerLogs(n) /\ UNCHANGED hist
    \/ NotePollStart /\ UNCHANGED hist
    \/ \E k \in NotePollIds : NotePollAnswered(k) /\ UNCHANGED hist
    \/ \E k \in NotePollIds : NotePollFailed(k) /\ UNCHANGED hist
    \/ \E k \in NotePollIds : NotesApplied(k) /\ UNCHANGED hist
    \/ ClearClick /\ UNCHANGED hist
    \/ \E outcome \in ClearOutcomes : ClearServed(outcome) /\ UNCHANGED hist
    \/ ClearApplied /\ UNCHANGED hist
    \/ ClearFailed /\ UNCHANGED hist

SpecNotifications == Init /\ [][NotificationsNext]_vars

\* the same, with a server whose clear request never fails
ClearRaceNext ==
    \/ \E n \in Notes : ServerLogs(n) /\ UNCHANGED hist
    \/ NotePollStart /\ UNCHANGED hist
    \/ \E k \in NotePollIds : NotePollAnswered(k) /\ UNCHANGED hist
    \/ \E k \in NotePollIds : NotesApplied(k) /\ UNCHANGED hist
    \/ ClearClick /\ UNCHANGED hist
    \/ ClearServed("ok") /\ UNCHANGED hist
    \/ ClearApplied /\ UNCHANGED hist

SpecClearRace == Init /\ [][ClearRaceNext]_vars

\* the open positions table, rendered from every response of up to
\* MaxPositions records
InitPositions ==
    /\ InitDashboard
    /\ posResponse \in { [stage |-> "answered", list |-> list] : list \in PositionLists }
PositionsNext ==
    PositionsApplied /\ UNCHANGED hist

SpecPositions == InitPositions /\ [][PositionsNext]_vars

\* the open positions view: refreshes, expand/collapse clicks and removals
PosViewNext ==
    \/ PositionsPollStart /\ UNCHANGED hist
    \/ \E list \in ViewLists : PositionsAnswered(list) /\ UNCHANGED hist
    \/ PositionsApplied /\ UNCHANGED hist
    \/ \E g \in 1..MaxPositions : TogglePosClick(g) /\ UNCHANGED hist
    \/ \E g \in 1..MaxPositions : RemovePosClick(g) /\ UNCHANGED hist
    \/ \E g \in 1..MaxPositions : RemovePosDeclined(g) /\ UNCHANGED hist
    \/ \E r \in RemoveIds, status \in RemoveStatuses :
          RemoveResolved(r, status) /\ UNCHANGED hist
    \/ \E r \in RemoveIds : RemoveRejected(r) /\ UNCHANGED hist

SpecPosView == Init /\ [][PosViewNext]_vars

\* full-data refreshes, one at a time, each followed by its pair-profit
\* response, with push events in between
SnapshotNext ==
    \/ /\ FreePolls = PollIds /\ profitFetches = 0
       /\ PollStart("data")
       /\ UNCHANGED << hist, others >>
    \/ \E k \in PollIds, d \in Snapshots :
          /\ DataApplied(k, d.prices, d.hasStatus, d.trade_status)
          /\ SnapshotRest(d)
          /\ hist' = [hist EXCEPT !.snapCur = << d >>]
    \/ \E g \in PairProfits :
          /\ ProfitsApplied(g)
          /\ hist' = [hist EXCEPT !.snapCur = NoSnapshot,
                                  !.snapInput = IF hist.snapCur = NoSnapshot THEN NoSnapshot
                                                ELSE hist.snapCur \o << g >>,
                                  !.snapShown = << Display' >>,
                                  !.snapAgain = /\ hist.snapCur # NoSnapshot
                                                /\ hist.snapInput = hist.snapCur \o << g >>]
    \/ \E pr \in SinglePriceMaps, ts \in { EmptyMap, [k \in {"BTCUSDC"} |-> FALSE] } :
          /\ PriceUpdate(pr, ts)
          /\ hist' = [hist EXCEPT !.snapCur = NoSnapshot, !.snapInput = NoSnapshot,
                                  !.snapShown = NoSnapshot, !.snapAgain = FALSE]

SpecSnapshot == Init /\ [][SnapshotNext]_vars

\* the profit view: refresh chains, pushes, and the reset and remove buttons
\* of the profit rows
ProfitViewNext ==
    \/ /\ FreePolls = PollIds /\ profitFetches = 0
       /\ PollStart("data")
       /\ UNCHANGED << hist, others >>
    \/ \E k \in PollIds, d \in ViewSnapshots :
          /\ DataApplied(k, d.prices, d.hasStatus, d.trade_status)
          /\ SnapshotRest(d)
          /\ UNCHANGED hist
    \/ \E g \in PairProfits : ProfitsApplied(g) /\ UNCHANGED hist
    \/ ProfitsFailed /\ UNCHANGED hist
    \/ \E ts \in { [k \in {"BTCUSDC"} |-> b] : b \in BOOLEAN } :
          /\ PriceUpdate([k \in {"BTCUSDC"} |-> << "num", 123456 >>], ts)
          /\ UNCHANGED hist
    \/ \E kind \in {"reset", "remove"}, id \in ProfitIds :
          ProfitClick(kind, id) /\ UNCHANGED hist
    \/ \E r \in ProfitReqIds : ProfitReqRejected(r) /\ UNCHANGED hist
    \/ \E r \in ProfitReqIds, status \in ProfitStatuses :
          ResetResolved(r, status) /\ UNCHANGED hist
    \/ \E r \in ProfitReqIds, status \in ProfitStatuses :
          RemoveProfitResolved(r, status) /\ UNCHANGED hist

SpecProfitView == Init /\ [][ProfitViewNext]_vars

\* the trades page: the selects, the reset button, the pagination buttons
\* and the responses of the server
LedgerNext ==
    \/ InitialLoad /\ hist' = NoHist
    \/ \E value \in Timeframes : TimeframeChange(value) /\ hist' = NoHist
    \/ \E value \in Sorts : SortChange(value) /\ hist' = NoHist
    \/ ResetClick /\ hist' = NoHist
    \/ PreviousClick /\ hist' = NoHist
    \/ NextClick /\ hist' = NoHist
    \/ \E r \in LedgerReqIds, data \in PageResponses :
          /\ PageApplied(r, data)
          /\ hist' = [NoHist EXCEPT !.applied = << data >>, !.query = ledgerReqs[r]]
    \/ \E r \in LedgerReqIds : PageFailed(r) /\ hist' = NoHist

SpecLedger == Init /\ [][LedgerNext]_vars

\* the push channel and the full-data polls, with the payload of each push
PushNext ==
    \/ /\ FreePolls = PollIds
       /\ PollStart("data")
       /\ hist' = NoHist /\ UNCHANGED others
    \/ \E k \in PollIds, pr \in SinglePriceMaps, ts \in StatusMaps :
          /\ DataApplied(k, pr, TRUE, ts)
          /\ hist' = NoHist /\ UNCHANGED others
    \/ \E pr \in SinglePriceMaps, ts \in StatusMaps :
          /\ PriceUpdate(pr, ts)
          /\ hist' = [NoHist EXCEPT !.pushed = << pr, ts >>]

SpecPush == Init /\ [][PushNext]_vars

\* updateData's chain: /api/data, /api/pair_profit, /api/open_positions
RefreshLists == { list \in ViewLists : Len(list) <= 1 }
RefreshSnapshots == { d \in ViewSnapshots : d.trade_status["BTCUSDC"] }
Staged(name) == [NoHist EXCEPT !.stage = name]
RefreshNext ==
    \/ /\ FreePolls = PollIds /\ profitFetches = 0
       /\ PollStart("data")
       /\ hist' = NoHist /\ UNCHANGED others
    \/ \E k \in PollIds :
          PollFailed(k) /\ hist' = Staged("data failed") /\ UNCHANGED others
    \/ \E k \in PollIds, d \in RefreshSnapshots :
          /\ DataApplied(k, d.prices, d.hasStatus, d.trade_status)
          /\ SnapshotRest(d)
          /\ hist' = Staged("data")
    \/ \E g \in PairProfits :
          RefreshProfitsApplied(g) /\ hist' = Staged("profits")
    \/ RefreshProfitsFailed /\ hist' = Staged("profits failed")
    \/ \E list \in RefreshLists :
          PositionsAnswered(list) /\ hist' = Staged("positions")
    \/ PositionsApplied /\ hist' = NoHist
    \/ PositionsFailed /\ hist' = Staged("positions failed")

SpecRefresh == Init /\ [][RefreshNext]_vars

\* the Start/Stop buttons: listeners attached after refreshes, clicks, and the
\* chains of toggleBot, of which several may be in flight
InitControls ==
    /\ InitPage(ChainIds)
    /\ posResponse = NoPosResponse
Settled(h, t) == [h EXCEPT !.clicked = 0, !.started = 0, !.clearOk[t] = "none"]
Stepped(h) == [h EXCEPT !.clicked = 0, !.started = 0]
ControlsNext ==
    \/ /\ AttachControlHandlers
       /\ hist' = [Stepped(hist) EXCEPT !.reattached = @ \/ \A p \in Pairs : bound[p]]
    \/ \E p \in Pairs :
          /\ ButtonClick(p)
          /\ hist' = [hist EXCEPT !.clicked = p,
                        !.started = Cardinality({ t \in ChainIds :
                            toggles[t].pc = "idle" /\ toggles'[t].pc # "idle" })]
    \/ \E t \in ChainIds, ok \in BOOLEAN :
          /\ ClearResolved(t)
          /\ hist' = [Stepped(hist) EXCEPT !.clearOk[t] = IF ok THEN "ok" ELSE "error"]
          /\ UNCHANGED others
    \/ \E t \in ChainIds :
          ToggleFailed(t) /\ hist' = Settled(hist, t) /\ UNCHANGED others
    \/ \E t \in ChainIds, s \in { StatusInvalidPair } :
          ControlInvalid(t, s) /\ hist' = Settled(hist, t) /\ UNCHANGED others
    \/ \E t \in ChainIds, s \in { StatusOk }, r \in BOOLEAN :
          ControlSucceeded(t, s, r) /\ hist' = Settled(hist, t) /\ UNCHANGED others
    \/ \E k \in PollIds :
          PollFailed(k) /\ hist' = Stepped(hist) /\ UNCHANGED others
    \/ \E k \in PollIds, ts \in StatusMaps :
          /\ DataApplied(k, EmptyMap, TRUE, ts)
          /\ hist' = Stepped(hist) /\ UNCHANGED others

SpecControls == InitControls /\ [][ControlsNext]_vars

(* ---------------------------------------------------------------------- *)
(* Claims                                                                  *)
(* ---------------------------------------------------------------------- *)
EditOf(ed, p) == ed[EditActionId(p)]
\* toggle t settles in this step, poll k ends in this step
Settles(t) == toggles[t].pc # "idle" /\ toggles'[t].pc = "idle"
Ends(k) == polls[k] # "none" /\ polls'[k] = "none"

(* C1: in every state, and so after every toggle response, poll response and
   push event, a pair's edit control is disabled exactly when its button
   shows 'Stop'. *)
C1_EditWhileRunning ==
    \A p \in Pairs : EditOf(editDisabled, p) <=> (label[p] = "Stop")

(* C2: a toggle clicked on 'Start' issues clear-open-positions for the pair's
   (symbol, exchange, mode) first and {action: start, pair_id} only after the
   clear request has completed; a toggle clicked on 'Stop' issues
   {action: stop, pair_id} and no clear request. *)
C2_Logs ==
    \A t \in ToggleIds : toggles[t].pc # "idle" =>
        LET p == toggles[t].pair
            clear == << "sent", "/api/clear_open_positions",
                        [symbol |-> rowSym[p], exchange |-> RowExchange[p],
                         trading_mode |-> RowMode[p]] >>
            done == << "done", "/api/clear_open_positions" >>
            control(a) == << "sent", "/api/control", [action |-> a, pair_id |-> p] >>
        IN  \/ /\ toggles[t].action = "start"
               /\ \/ toggles[t].pc = "clear" /\ toggles[t].log = << clear >>
                  \/ /\ toggles[t].pc = "control"
                     /\ toggles[t].log = << clear, done, control("start") >>
            \/ /\ toggles[t].action = "stop"
               /\ toggles[t].pc = "control"
               /\ toggles[t].log = << control("stop") >>
C2_Click ==
    \A t \in ToggleIds : toggles[t].pc = "idle" /\ toggles'[t].pc # "idle" =>
        (toggles'[t].action = "start") <=> (label[toggles'[t].pair] = "Start")
C2_RequestOrder == []C2_Logs /\ [][C2_Click]_vars
C2_Witness ==
    \E t \in ToggleIds :
        /\ toggles[t].action = "start" /\ toggles[t].pc = "control"
        /\ Len(toggles[t].log) = 3

(* C3: a successful control response sets the button to 'Stop' and disables
   the edit control when bot_is_running is true, and sets 'Start' and enables
   the edit control when it is false, whatever action was requested. *)
C3_ServerFlagDecides ==
    [][\A t \in ToggleIds, s \in StatusVals, r \in BOOLEAN :
        ControlSucceeded(t, s, r) =>
            /\ label'[toggles[t].pair] = (IF r THEN "Stop" ELSE "Start")
            /\ EditOf(editDisabled', toggles[t].pair) = r]_vars
C3_Witness ==
    /\ last.ev = "ok" /\ last.action = "stop"
    /\ label[last.pair] = "Stop" /\ EditOf(editDisabled, last.pair)

(* C4: after a failed toggle (rejected request, non-OK response or 'invalid'
   status) an alert has been shown and the pair's label and edit state equal
   those shown immediately before the click (stated for the toggles during
   which no other handler changed the pair's display). *)
C4_Rollback ==
    [][\A t \in ToggleIds :
        Settles(t) /\ last'.ev \in {"fail", "invalid"} =>
            /\ alerts' >= 1
            /\ hist.shown[t] = << label[toggles[t].pair],
                                  EditOf(editDisabled, toggles[t].pair) >> =>
                /\ label'[toggles[t].pair] = hist.shown[t][1]
                /\ EditOf(editDisabled', toggles[t].pair) = hist.shown[t][2]]_vars

(* C5: a control response whose status contains 'invalid' in any letter case
   is never applied as a success; handling it leaves the button's label as it
   is and the edit control not disabled. *)
InvalidExamples == { StatusInvalidPair, StatusUpper }
C5_InvalidLeavesLabel ==
    [][\A t \in ToggleIds, s \in InvalidExamples :
        /\ \A r \in BOOLEAN : ~ControlSucceeded(t, s, r)
        /\ ControlInvalid(t, s) =>
            /\ label'[toggles[t].pair] = label[toggles[t].pair]
            /\ ~EditOf(editDisabled', toggles[t].pair)]_vars
C5_Witness ==
    /\ last.ev = "invalid" /\ last.action = "stop"
    /\ label[last.pair] = "Stop" /\ ~EditOf(editDisabled, last.pair)

(* C6: right after a click, before any response, the pair's button and edit
   control already show the target state of the action. *)
C6_OptimisticFlip ==
    [][\A p \in Pairs :
        ToggleClick(p) =>
            /\ label'[p] # label[p]
            /\ EditOf(editDisabled', p) = (label'[p] = "Stop")]_vars

(* C7: a poll that was started before a toggle's click and is applied after
   that toggle's response has set the pair's display does not change that
   pair's label or edit state. *)
C7_UserPrecedence ==
    [][\A k \in PollIds, p \in Pairs :
        Ends(k) /\ hist.newer[k][p] = "toggle" =>
            /\ label'[p] = label[p]
            /\ EditOf(editDisabled', p) = EditOf(editDisabled, p)]_vars

(* C8: a poll that was started before a price_update was applied and is
   applied after it does not change the price or the label that the push
   event wrote. *)
C8_PushNotOverwritten ==
    [][\A k \in PollIds, p \in Pairs :
        Ends(k) /\ hist.newer[k][p] = "push" =>
            /\ priceText'[p] = priceText[p]
            /\ label'[p] = label[p]]_vars

(* C9: a push message or poll response changes the displayed price only of
   rows whose symbol is in its price map, and the label and edit state only
   of rows whose symbol is in its trade_status map. *)
Frame9(prices, trade_status) ==
    \A p \in Pairs :
        /\ SymbolOf(p) \notin DOMAIN prices => priceText'[p] = priceText[p]
        /\ SymbolOf(p) \notin DOMAIN trade_status =>
            /\ label'[p] = label[p]
            /\ EditOf(editDisabled', p) = EditOf(editDisabled, p)
C9_FieldByField ==
    [][/\ \A pr \in PriceMaps, ts \in StatusMaps :
            PriceUpdate(pr, ts) => Frame9(pr, ts)
       /\ \A k \in PollIds, pr \in PriceMaps, ts \in StatusMaps :
            DataApplied(k, pr, TRUE, ts) => Frame9(pr, ts)]_vars

(* C10: after a push delta or a poll snapshot is applied, the price cache
   holds the applied value for every symbol of its price map. *)
Cached10(prices) ==
    \A sym \in DOMAIN prices :
        sym \in DOMAIN priceCache' /\ priceCache'[sym] = prices[sym]
C10_LatestApplied ==
    [][/\ \A pr \in PriceMaps, ts \in StatusMaps :
            PriceUpdate(pr, ts) => Cached10(pr)
       /\ \A k \in PollIds, pr \in PriceMaps, ts \in StatusMaps :
            DataApplied(k, pr, TRUE, ts) => Cached10(pr)]_vars

(* C11: a price_update delta sets the cached price of every symbol it
   carries to the carried value and leaves the cached price of every other
   symbol as it was (present with the same value, or absent). *)
C11_PartialUpdate ==
    [][\A pr \in AnyPriceMaps :
        PriceUpdate(pr, EmptyMap) =>
            /\ \A sym \in DOMAIN pr :
                    sym \in DOMAIN priceCache' /\ priceCache'[sym] = pr[sym]
            /\ \A sym \in Symbols \ DOMAIN pr :
                    /\ sym \in DOMAIN priceCache' <=> sym \in DOMAIN priceCache
                    /\ sym \in DOMAIN priceCache =>
                            priceCache'[sym] = priceCache[sym]]_vars
\* deltas were merged into a cache no snapshot has touched: it holds both
\* symbols, with different prices
C11_Witness ==
    /\ initFetch = "idle"
    /\ DOMAIN priceCache = Symbols
    /\ priceCache["BTCUSDC"] # priceCache["ETHUSDC"]

(* C12: a symbol that is in the price cache is in the cache after every
   step: push events, poll responses and the initial snapshot evict nothing. *)
C12_NoEviction ==
    [][DOMAIN priceCache \subseteq DOMAIN priceCache']_vars

(* C14: every render path (push handler, full-data poll, market overview
   table) shows a number formatted to 4 decimal places and shows 'N/A' for
   every other value (null, absent, 'N/A', any other non-number), and no
   render throws. *)
Expected14(v) ==
    IF v[1] = "num" THEN << "fixed4", ToFixed4(v[2]) >> ELSE << "NA", 0 >>
C14_RenderFallback ==
    [][/\ \A pr \in AnyPriceMaps :
            PriceUpdate(pr, EmptyMap) =>
                /\ \A p \in RowsOf(pr) :
                        priceText'[p] = Expected14(pr[SymbolOf(p)])
                /\ \A sym \in DOMAIN marketText' :
                        marketText'[sym][2] = Expected14(Lookup(priceCache', sym))[2]
       /\ \A k \in PollIds, pr \in AnyPriceMaps :
            DataApplied(k, pr, FALSE, EmptyMap) =>
                \A p \in RowsOf(pr) : priceText'[p] = Expected14(pr[SymbolOf(p)])
       /\ threw' = threw]_vars

(* C19: a toggle whose control response reports success starts exactly one
   full-data refresh, in the step that writes the response to the button and
   not before; a click, a resolved clear request and a failed toggle start
   none. *)
Started19 == { k \in PollIds : polls[k] = "none" /\ polls'[k] # "none" }
C19_RefreshAfterToggle ==
    [][/\ \A t \in ToggleIds, s \in StatusVals, r \in BOOLEAN :
            ControlSucceeded(t, s, r) =>
                /\ label'[toggles[t].pair] = LabelFor(r)
                /\ Cardinality(Started19) = 1
                /\ \A k \in Started19 : polls'[k] = "data"
                /\ \A k \in PollIds \ Started19 : polls'[k] = polls[k]
       /\ \A p \in Pairs : ToggleClick(p) => polls' = polls
       /\ \A t \in ToggleIds :
            /\ ClearResolved(t) => polls' = polls
            /\ Settles(t) /\ last'.ev \in {"fail", "invalid"} => polls' = polls]_vars
\* a toggle has just succeeded: its pair shows 'Stop' and a refresh is in flight
C19_Witness ==
    /\ last.ev = "ok" /\ last.action = "start"
    /\ label[last.pair] = "Stop"
    /\ \E k \in PollIds : polls[k] = "data"

(* C15: as long as the seen-set has not been cleared, every error
   notification that some applied response has carried has been alerted
   exactly once, however many responses carried it, and no other notification
   has been alerted. *)
C15_Dedup ==
    ~noteHist.resets =>
        \A n \in Notes :
            noteHist.alerted[NoteId(n)] =
                IF n.type = "error" /\ noteHist.delivered[NoteId(n)] # "none"
                THEN 1 ELSE 0
\* the error notification was carried by more than one applied response
C15_Witness ==
    /\ ~noteHist.resets
    /\ noteHist.delivered[NoteId(ErrorNote)] = "again"
    /\ noteHist.alerted[NoteId(ErrorNote)] = 1

(* C16: after a notification response is applied the list holds one entry
   for every notification of the response, seen before or not, and the count
   shown is the number of notifications of the response. *)
EntriesOf16(list, n) == { i \in 1..Len(list) : list[i] = Entry(n) }
C16_SeenStillRendered ==
    [][\A k \in NotePollIds :
        NotesApplied(k) =>
            /\ notificationCount' = Cardinality(notePolls[k].body)
            /\ \A n \in notePolls[k].body :
                    Cardinality(EntriesOf16(notificationList', n)) = 1
            /\ \A n \in Notes \ notePolls[k].body :
                    EntriesOf16(notificationList', n) = {}]_vars
\* both notifications are listed and counted, and both had been seen before
C16_Witness ==
    /\ notificationCount = 2
    /\ \A n \in Notes :
            /\ noteHist.delivered[NoteId(n)] = "again"
            /\ EntriesOf16(notificationList, n) # {}

(* C17: the seen-set is emptied only by the handler of a clear request that
   the server completed successfully; when the clear request fails, the
   seen-set is left as it was and no notification poll is started. *)
C17_ClearOrdering ==
    [][/\ seenNotifications # {} /\ seenNotifications' = {} => clearReq = "ok"
       /\ clearReq \in {"sent", "errjson", "errtext"} /\ clearReq' = "none" =>
            /\ seenNotifications' = seenNotifications
            /\ notePolls' = notePolls]_vars

(* C18: no notification is alerted a second time, whatever the interleaving
   of Clear All with the notification polls in flight. *)
C18_NoResurrection ==
    \A id \in NoteIds : noteHist.alerted[id] <= 1

(* C20: in the rendered open positions table every record of the response
   belongs to exactly one group, the one with its symbol and exchange; every
   group has at least one record, and shows the sum of its records'
   quantities, the sum of their positive current_pnl, the absolute value of
   the sum of their negative current_pnl, and their common trading mode, or
   'mixed' when they differ. *)
RECURSIVE SetSum20(_, _)
SetSum20(f, S) ==
    IF S = {} THEN 0
    ELSE LET i == CHOOSE j \in S : TRUE IN f[i] + SetSum20(f, S \ {i})
Members20(list, hdr) ==
    { i \in 1..Len(list) :
        list[i].symbol = hdr.symbol /\ list[i].exchange = hdr.exchange }
Pnl20(list) ==
    [i \in 1..Len(list) |->
        IF list[i].current_pnl[1] = "num" THEN list[i].current_pnl[2] ELSE 0]
C20_Aggregation ==
    posResponse.stage = "rendered" =>
        LET list == posResponse.list
            qty == [i \in 1..Len(list) |-> list[i].quantity]
            pnl == Pnl20(list)
        IN  /\ \A i \in 1..Len(list) :
                    Cardinality({ g \in 1..Len(posTable) :
                                    i \in Members20(list, posTable[g]) }) = 1
            /\ \A g \in 1..Len(posTable) :
                    LET hdr == posTable[g]
                        M == Members20(list, hdr)
                        modes == { list[i].trading_mode : i \in M }
                        sumLoss == SetSum20(pnl, { i \in M : pnl[i] < 0 })
                    IN  /\ M # {}
                        /\ hdr.rows = Cardinality(M)
                        /\ hdr.totalQty = SetSum20(qty, M)
                        /\ hdr.totalProfit = SetSum20(pnl, { i \in M : pnl[i] > 0 })
                        /\ hdr.totalLoss = (IF sumLoss < 0 THEN 0 - sumLoss ELSE sumLoss)
                        /\ \A mode \in modes :
                                hdr.modeLabel = (IF modes = {mode} THEN mode ELSE "mixed")
\* a table of two groups, one of them with records of both modes, a gain and a loss
C20_Witness ==
    /\ posResponse.stage = "rendered"
    /\ Len(posTable) = 2
    /\ \E g \in 1..Len(posTable) :
            /\ posTable[g].rows = 2
            /\ posTable[g].modeLabel = "mixed"
            /\ posTable[g].totalProfit > 0
            /\ posTable[g].totalLoss > 0

(* C13: when a full-data snapshot and its pair-profit response are applied
   and the same two responses had been applied just before, with no other
   event in between, the price cache, the displayed prices, the displayed
   run states and the account accordion with its totals are what they were
   after the first application. *)
C13_SnapshotIdempotent ==
    [][\A g \in PairProfits :
        ProfitsApplied(g) /\ hist.snapCur # NoSnapshot
                          /\ hist.snapInput = hist.snapCur \o << g >> =>
            << Display' >> = hist.snapShown]_vars
\* the same snapshot has been applied twice in a row: the pair table and the
\* accordion show its run states and the totals of its profits
C13_Witness ==
    /\ hist.snapAgain
    /\ hist.snapInput[1].hasAccount /\ DOMAIN hist.snapInput[2] # {}
    /\ \E i \in 1..Len(accountItems) : Len(accountItems[i].rows) = 2
    /\ hist.snapShown = << Display >>
    /\ \E p \in Pairs : label[p] = "Stop"

\* the group of a symbol and exchange in a table, as a set of entries
GroupsOf21(table, e) ==
    { table[h] : h \in { i \in 1..Len(table) :
        table[i].symbol = e.symbol /\ table[i].exchange = e.exchange } }
(* C21: when the open positions are rendered again, a group whose rows were
   shown and that is in the new list has its rows shown afterwards, and a
   group whose rows were not shown and that is in the new list has them not
   shown afterwards. *)
C21_ExpandSurvives ==
    [][PositionsApplied =>
        \A g \in 1..Len(posTable) : \A e \in GroupsOf21(posTable', posTable[g]) :
            e.show = (posTable[g].rows > 0 /\ posTable[g].show)]_vars
\* a table of two groups, the second one expanded, has just been rendered
\* from a response while a group was expanded
C21_Witness ==
    /\ posResponse.stage = "rendered"
    /\ Len(posTable) >= 2
    /\ posTable[2].show /\ posTable[2].icon = "bi-chevron-up"
    /\ ~posTable[1].show
    /\ \E r \in RemoveIds : removeReqs[r].stage = "sent" /\ ~removeReqs[r].attached

\* the groups whose detail rows are shown
Expanded22(table) == { g \in 1..Len(table) : table[g].rows > 0 /\ table[g].show }
(* C22: in every state at most one position group has its rows shown; a click
   on the toggle of a group with rows that were not shown leaves exactly that
   group shown, and a click on the toggle of a group whose rows were shown
   leaves no group shown. *)
C22_SingleExpanded ==
    /\ [](Cardinality(Expanded22(posTable)) <= 1)
    /\ [][\A g \in 1..MaxPositions :
            TogglePosClick(g) /\ posTable[g].rows > 0 =>
                Expanded22(posTable') = IF g \in Expanded22(posTable) THEN {} ELSE {g}]_vars
\* after a removal was answered, three groups are displayed and the last one
\* is the expanded one
C22_Witness ==
    /\ Len(posTable) = 3
    /\ Expanded22(posTable) = {3}
    /\ posTable[3].icon = "bi-chevron-up" /\ posTable[1].icon = "bi-chevron-down"
    /\ \A g \in 1..3 : posTable[g].rows > 0
    /\ \E r \in RemoveIds : removeReqs[r].stage = "done"

\* the entries of a table that belong to the group of a request
Of23(table, req) ==
    { h \in 1..Len(table) :
        table[h].symbol = req.symbol /\ table[h].exchange = req.exchange }
\* a table without the entries of the group of a request
Without23(table, req) ==
    SelectSeq(table, LAMBDA e : ~(e.symbol = req.symbol /\ e.exchange = req.exchange))
(* C23: a confirmed click on a group's remove button sends the group's symbol
   and exchange, with trading_mode the group's mode label or null when the
   label is 'mixed'; when the answer is 'success', the view then holds neither
   the header nor a row of that group, the other groups are as they were, and
   one refresh has been started. *)
C23_GroupRemoval ==
    [][/\ \A g \in 1..MaxPositions :
            RemovePosClick(g) =>
                \E r \in RemoveIds :
                    /\ removeReqs[r].stage = "none" /\ removeReqs'[r].stage = "sent"
                    /\ removeReqs'[r].symbol = posTable[g].symbol
                    /\ removeReqs'[r].exchange = posTable[g].exchange
                    /\ removeReqs'[r].trading_mode =
                            IF posTable[g].modeLabel = "mixed" THEN << "null", "" >>
                            ELSE << "str", posTable[g].modeLabel >>
       /\ \A r \in RemoveIds :
            RemoveResolved(r, "success") =>
                /\ Of23(posTable', removeReqs[r]) = {}
                /\ posTable' = Without23(posTable, removeReqs[r])
                /\ posRefreshes' = posRefreshes + 1]_vars

\* the sums of the values that the rows of an accordion item display
RowSums24(item) ==
    [usdc |-> << "fixed4",
                 Reduce([j \in 1..Len(item.rows) |-> ParseFloat(item.rows[j].usdc)]) >>,
     crypto |-> << "fixed6",
                 Reduce([j \in 1..Len(item.rows) |-> ParseFloat(item.rows[j].crypto)]) >>]
(* C24: when the removal of a displayed profit row is answered 'success', the
   row is gone and the heading of its account shows, as USDC and crypto
   totals, the sums of the values displayed by the rows that remain in that
   account's table. *)
C24_RecomputeOnRemove ==
    [][\A r \in ProfitReqIds :
        /\ RemoveProfitResolved(r, "success")
        /\ RowsWithId(accountItems, profitReqs[r].pair_id) # {}
        => LET i == FirstOf(RowsWithId(accountItems, profitReqs[r].pair_id))[1]
           IN  /\ Len(accountItems'[i].rows) = Len(accountItems[i].rows) - 1
               /\ accountItems'[i].usdc = RowSums24(accountItems'[i]).usdc
               /\ accountItems'[i].crypto = RowSums24(accountItems'[i]).crypto]_vars
\* the first of two rows has been removed: the remaining row is the second
\* pair's and the heading shows its values, no longer the sum of both
C24_Witness ==
    /\ \E i \in 1..Len(accountItems) :
        /\ Len(accountItems[i].rows) = 1
        /\ accountItems[i].key = "binance_real"
        /\ accountItems[i].rows[1].pair_id = ProfitB.pair_id
        /\ accountItems[i].usdc = << "fixed4", ToFixed4(ProfitB.profit_usdc) >>
        /\ accountItems[i].crypto = << "fixed6", ProfitB.profit_crypto >>
    /\ \E r \in ProfitReqIds : profitReqs[r].stage = "done"
    /\ \E k \in PollIds : polls[k] = "data"

\* the value of a heading total, in units of 10^-5 (usdc) and 10^-6 (crypto)
HeadUsdc25(cell) == IF cell[1] = "raw" THEN cell[2] ELSE 10 * cell[2]
(* C25: in every state of the profit view, each account heading's USDC and
   crypto totals have the value of the sums of the values displayed by the
   rows of that account's table. *)
C25_TotalsMatchRows ==
    \A i \in 1..Len(accountItems) :
        /\ HeadUsdc25(accountItems[i].usdc) = 10 * RowSums24(accountItems[i]).usdc[2]
        /\ accountItems[i].crypto[2] = RowSums24(accountItems[i]).crypto[2]

\* the run state that the latest completed update of a symbol has displayed
\* in the pair table, for the symbols that have a row
Running29(sym) == label[QuerySelectorRow(sym)] = "Stop"
(* C29: when the profit rows are rendered, the reset and remove buttons of
   each row whose symbol has a row in the pair table are disabled exactly
   when the latest completed update of that symbol's run state, from a poll
   or a push, says that the pair is running. *)
C29_LatestRunState ==
    [][\A g \in PairProfits :
        ProfitsApplied(g) =>
            \A i \in 1..Len(accountItems') :
                \A j \in 1..Len(accountItems'[i].rows) :
                    LET row == accountItems'[i].rows[j]
                    IN  QuerySelectorRow(row.symbol) # NoRow =>
                            row.disabled = Running29(row.symbol)]_vars

\* exactly one request is issued, and it is the query q
OneRequest26(q) ==
    \E r \in LedgerReqIds :
        /\ ledgerReqs[r] = NoLedgerReq /\ ledgerReqs'[r] = << q >>
        /\ \A o \in LedgerReqIds \ {r} : ledgerReqs'[o] = ledgerReqs[o]
(* C26: a change of the timeframe, a change of the sort key and the reset
   action each set the page cursor to 1 and issue exactly one request: page 1,
   20 entries per page, with the timeframe and sort key that are then
   selected. *)
C26_CursorReset ==
    [][/\ \A value \in Timeframes :
            TimeframeChange(value) =>
                /\ currentPage' = 1
                /\ OneRequest26([page |-> 1, per_page |-> 20,
                                 timeframe |-> value, sort |-> currentSort])
       /\ \A value \in Sorts :
            SortChange(value) =>
                /\ currentPage' = 1
                /\ OneRequest26([page |-> 1, per_page |-> 20,
                                 timeframe |-> currentTimeframe, sort |-> value])
       /\ ResetClick =>
                /\ currentPage' = 1
                /\ OneRequest26([page |-> 1, per_page |-> 20,
                                 timeframe |-> "all", sort |-> "timestamp"])]_vars
\* the request for page 2 that Next issued is still in flight, and the
\* timeframe has been changed since: the cursor is 1 and page 1 is requested
C26_Witness ==
    /\ currentPage = 1 /\ currentTimeframe = "day"
    /\ \E r, o \in LedgerReqIds :
        /\ ledgerReqs[r] = << [page |-> 2, per_page |-> 20,
                               timeframe |-> "all", sort |-> "timestamp"] >>
        /\ ledgerReqs[o] = << [page |-> 1, per_page |-> 20,
                               timeframe |-> "day", sort |-> "timestamp"] >>

(* C27: when a page response with current_page within 1..total_pages has
   been applied, pagination controls are displayed, Previous is disabled
   exactly when current_page is 1 and Next is disabled exactly when
   current_page is total_pages. *)
C27_PaginationControls ==
    \A data \in PageResponses :
        /\ hist.applied = << data >>
        /\ data.total_pages >= 1 /\ data.current_page <= data.total_pages
        => /\ paginationControls # NoControls
           /\ paginationControls[1].prevDisabled = (data.current_page = 1)
           /\ paginationControls[1].nextDisabled = (data.current_page = data.total_pages)

\* the rows that display a list of entries
RowsOf28(entries) == [i \in 1..Len(entries) |-> << "entry", entries[i] >>]
(* C28: when a page response has been applied, the ledger table holds one row
   per entry of that response, in order, and nothing else; for a response
   without entries it holds the one 'no entries' row. *)
C28_SinglePage ==
    \A data \in PageResponses :
        hist.applied = << data >> =>
            ledgerBody = IF Len(data.entries) = 0
                         THEN << << "text", "No profit/loss entries found." >> >>
                         ELSE RowsOf28(data.entries)
\* the one entry of page 2 of 3 has just replaced the rows displayed before,
\* while another request is in flight
C28_Witness ==
    /\ hist.applied # << >>
    /\ hist.applied[1].entries = << "e1" >> /\ hist.applied[1].current_page = 2
    /\ ledgerBody = << << "entry", "e1" >> >>
    /\ paginationControls # NoControls
    /\ paginationControls[1].page = 2 /\ paginationControls[1].totalPages = 3
    /\ \E r \in LedgerReqIds : ledgerReqs[r] # NoLedgerReq /\ ledgerReqs[r][1].page = 3

(* C30: when two rows of the pair table carry the same symbol, a push that
   carries that symbol leaves both rows with the same price text and the
   same Start/Stop label. *)
C30_SymbolScoping ==
    [][\A pr \in AnyPriceMaps :
        PriceUpdate(pr, EmptyMap) =>
            \A p, q \in Pairs :
                rowSym[p] = rowSym[q] /\ rowSym[p] \in DOMAIN pr =>
                    /\ priceText'[p] = priceText'[q]
                    /\ label'[p] = label'[q]]_vars

\* the rows that carry a symbol
Rows31(sym) == { p \in Pairs : rowSym[p] = sym }
\* the rows that a price map reaches: for each symbol, the first of its rows
Reached31(pr) ==
    { p \in Pairs : \E sym \in DOMAIN pr :
        p \in Rows31(sym) /\ \A q \in Rows31(sym) : p <= q }
(* C31: when a push carries a symbol that has no row in the pair table, the
   symbol's price is merged into the price cache, no row that the message's
   other symbols do not reach changes its price, label or edit state, and
   each row that another symbol of the message reaches gets that symbol's
   price and run state. *)
C31_UnknownSymbol ==
    [][hist'.pushed # << >> =>
        LET pr == hist'.pushed[1]
            ts == hist'.pushed[2]
        IN  (\E sym \in DOMAIN pr : Rows31(sym) = {}) =>
            /\ \A sym \in DOMAIN pr : Rows31(sym) = {} =>
                    sym \in DOMAIN priceCache' /\ priceCache'[sym] = pr[sym]
            /\ \A p \in Pairs \ Reached31(pr) :
                    /\ priceText'[p] = priceText[p]
                    /\ label'[p] = label[p]
                    /\ \A e \in DomEditIds : e[2] = p => editDisabled'[e] = editDisabled[e]
            /\ \A p \in Reached31(pr) :
                    /\ priceText'[p] = << "fixed4", (pr[rowSym[p]][2] + 5) \div 10 >>
                    /\ label'[p] = IF rowSym[p] \in DOMAIN ts /\ ts[rowSym[p]]
                                   THEN "Stop" ELSE "Start"]_vars
\* both rows carry BTCUSDC and a push has brought ETHUSDC, which has no row:
\* its price is in the cache, the first row shows BTCUSDC's price and the
\* second row still shows N/A
C31_Witness ==
    /\ \A p \in Pairs : rowSym[p] = "BTCUSDC"
    /\ hist.pushed # << >>
    /\ DOMAIN hist.pushed[1] = { "BTCUSDC", "ETHUSDC" }
    /\ DOMAIN priceCache = { "BTCUSDC", "ETHUSDC" }
    /\ priceText[1] = << "fixed4", 12346 >>
    /\ priceText[2] = << "NA", 0 >>
    /\ label[1] = "Stop"

(* C32: however often attachControlHandlers runs, every Start/Stop button has
   at most one click listener, and a click on a button that has a listener
   starts exactly one toggleBot chain. *)
C32_SingleDispatch ==
    /\ \A p \in Pairs : listeners[p] <= 1
    /\ hist.clicked # 0 /\ listeners[hist.clicked] >= 1 => hist.started = 1
C32_Witness ==
    /\ hist.reattached
    /\ hist.clicked # 0
    /\ hist.started = 1
    /\ listeners[hist.clicked] = 1

(* C33: while a toggleBot chain of a pair waits for its clear-open-positions or
   control response, no second chain is started for the same pair. *)
C33_OneInFlight ==
    \A t, u \in ChainIds :
        /\ toggles[t].pc # "idle" /\ toggles[u].pc # "idle"
        /\ toggles[t].pair = toggles[u].pair
        => t = u

(* C34: a start toggle issues its control request only when its
   clear-open-positions request has succeeded; when that request fails no
   control request is issued, the label is left as it was and one alert is
   raised. *)
C34_ClearFailure ==
    \A t \in ChainIds :
        toggles[t].action = "start" /\ toggles[t].pc = "control"
        => hist.clearOk[t] = "ok"

(* C38: a toggle that fails, by a rejected request, a non-OK response or a
   status containing 'invalid', raises exactly one alert. *)
C38_OneAlert ==
    last.ev \in {"fail", "invalid"} => alerts = 1

(* C35: within updateData, /api/pair_profit is requested only by the step that
   applied the /api/data response and /api/open_positions only by the step that
   applied the pair-profit response; a stage that fails requests nothing and
   leaves the account accordion and the open-positions table as they were. *)
C35_PipelineOrder ==
    [][/\ profitFetches' > profitFetches => hist'.stage = "data"
       /\ posRefreshes' > posRefreshes => hist'.stage = "profits"
       /\ hist'.stage \in {"data failed", "profits failed", "positions failed"} =>
            /\ profitFetches' <= profitFetches
            /\ posRefreshes' <= posRefreshes
            /\ accountItems' = accountItems
            /\ posTable' = posTable]_vars
C35_Witness ==
    /\ hist.stage = "profits failed"
    /\ posResponse.stage = "rendered"
    /\ posTable # << >>
    /\ posRefreshes = 0

(* C36: when a page response has been applied and no page request is in
   flight any more, the response displayed is the one of the request issued
   last: its page, timeframe and sort key are those of the cursor. *)
C36_LatestIssued ==
    /\ hist.applied # << >>
    /\ \A r \in LedgerReqIds : ledgerReqs[r] = NoLedgerReq
    => hist.query = LedgerQuery(currentPage, currentTimeframe, currentSort)

(* C37: a click on Previous or Next requests a page that is at least 1 and at
   most the total_pages of the response that rendered the controls. *)
C37_PageBounds ==
    [][PreviousClick \/ NextClick =>
        \A r \in LedgerReqIds :
            ledgerReqs'[r] # ledgerReqs[r] =>
                /\ ledgerReqs'[r][1].page >= 1
                /\ ledgerReqs'[r][1].page <= paginationControls[1].totalPages]_vars
====
